---- MODULE Spec2Model ----
(***************************************************************************)
(* A model of the numeric helpers of the WISPR analysis toolkit:           *)
(*   filter_distortion_table, smooth_curve, make_cutout                    *)
(*                                   (wispr_analysis/image_alignment.py)   *)
(*   collect_files, get_PSP_path, to_timestamp, get_hann_rolloff           *)
(*                                   (utils.py)                            *)
(*   load_kernels, clear_kernels, locate_planets, cache_planet_pos,        *)
(*   format_date                     (wispr_analysis/planets.py)           *)
(*   make_WISPR_video                (videos.py)                           *)
(* Each function is a small state machine of its own, with its own         *)
(* specification; the variables of the functions a specification does not  *)
(* run stay at their idle values.                                          *)
(***************************************************************************)
EXTENDS Integers, Sequences, FiniteSets, TLC

VARIABLES
    fdt_pc,       \* filter_distortion_table: "idle" | "call" | "fill" | "done" | "raised"
    fdt_input,    \* the caller's array as it was when the call was made
    fdt_caller,   \* the caller's array as it is now
    fdt_data,     \* the array bound to the local name `data`
    fdt_shared,   \* TRUE when `data` is a view of the caller's buffer
    fdt_trimmed,  \* the list `trimmed`: <<top, bottom, left, right>>
    fdt_passes,   \* iterations of the NaN-filling while loop so far
    fdt_result,   \* the returned array
    sm_pc,        \* smooth_curve: "idle" | "call" | "done"
    sm_x,         \* the argument x, in units of sig
    sm_y,         \* the argument y
    sm_outlier,   \* the argument outlier_sig
    sm_out,       \* output_array
    cut_pc,       \* make_cutout: "idle" | "call" | "done"
    cut_args,     \* the arguments x, y (in halves), data, cutout_size, normalize
    cut_result,   \* what the call returned, or the exception it raised
    cf_tree,      \* collect_files: the files under top_level_dir
    cf_sel,       \* the arguments order and between of the calls of this run
    cf_ref,       \* the result of a call with include_sortkey and
                  \* include_headers both True
    cf_args,      \* the arguments of the latest other call
    cf_res,       \* the result of the latest other call
    ts_log,       \* to_timestamp: the calls made so far, each with its result
    hann_pc,      \* get_hann_rolloff: "idle" | "call" | "done"
    hann_shape,   \* the argument shape, as np.atleast_1d makes it
    hann_rolloff, \* the argument rolloff, likewise, in quarters
    hann_result,  \* the mask returned or the exception raised, and the warnings
    KERNELS_LOADED,\* planets.py: the module global of that name
    kern_dir,     \* the files under kernel_dir
    kern_pool,    \* the kernels SPICE holds, in the order they were furnished
    kern_hist,    \* the calls of load_kernels and clear_kernels so far
    fd_pc,        \* format_date: "idle" | "call" | "done"
    fd_date,      \* the argument date
    fd_res,       \* the string returned, or the exception raised
    pl_cache,     \* locate_planets: the files in cache_dir, each a name and its pickled contents
    pl_hist,      \* the calls of cache_planet_pos and locate_planets so far
    vid_pc,       \* make_WISPR_video: "call" before the call, "done" after it
    vid_args,     \* its arguments and the images collect_files returns
    vid_res,      \* what it raised, the shown time range and the image pair of each frame
    fas_pc,       \* find_all_stars: "map" while the workers run, "done" after the return
    fas_ifiles,   \* ifiles, the file names in input order
    fas_frames,   \* what each file holds: the stars found in it, or that it is rejected
    fas_finished, \* the workers' results, in the order the workers finished
    fas_out,      \* what find_all_stars returned
    pr_obj,       \* the RadialTransformer or HprWcs: its class and attributes
    pr_origin,    \* the origin given to all_pix2world and all_world2pix
    pr_path       \* the coordinates given first and the results of the conversions applied since

fdtVars == <<fdt_pc, fdt_input, fdt_caller, fdt_data, fdt_shared,
             fdt_trimmed, fdt_passes, fdt_result>>

smVars == <<sm_pc, sm_x, sm_y, sm_outlier, sm_out>>

cutVars == <<cut_pc, cut_args, cut_result>>

cfVars == <<cf_tree, cf_sel, cf_ref, cf_args, cf_res>>

tsVars == <<ts_log>>

hannVars == <<hann_pc, hann_shape, hann_rolloff, hann_result>>

kernVars == <<KERNELS_LOADED, kern_dir, kern_pool, kern_hist>>

fdVars == <<fd_pc, fd_date, fd_res>>

plVars == <<pl_cache, pl_hist>>

vidVars == <<vid_pc, vid_args, vid_res>>

fasVars == <<fas_pc, fas_ifiles, fas_frames, fas_finished, fas_out>>

prVars == <<pr_obj, pr_origin, pr_path>>

vars == <<fdtVars, smVars, cutVars, cfVars, tsVars, hannVars, kernVars, fdVars, plVars, vidVars, fasVars, prVars>>

\* What a step of one function leaves alone: the variables of the others.
fdtOthers == <<smVars, cutVars, cfVars, tsVars, hannVars, kernVars, fdVars, plVars, vidVars, fasVars, prVars>>
smOthers == <<fdtVars, cutVars, cfVars, tsVars, hannVars, kernVars, fdVars, plVars, vidVars, fasVars, prVars>>
cutOthers == <<fdtVars, smVars, cfVars, tsVars, hannVars, kernVars, fdVars, plVars, vidVars, fasVars, prVars>>
cfOthers == <<fdtVars, smVars, cutVars, tsVars, hannVars, kernVars, fdVars, plVars, vidVars, fasVars, prVars>>
tsOthers == <<fdtVars, smVars, cutVars, cfVars, hannVars, kernVars, fdVars, plVars, vidVars, fasVars, prVars>>
hannOthers == <<fdtVars, smVars, cutVars, cfVars, tsVars, kernVars, fdVars, plVars, vidVars, fasVars, prVars>>
kernOthers == <<fdtVars, smVars, cutVars, cfVars, tsVars, hannVars, fdVars, plVars, vidVars, fasVars, prVars>>
fdOthers == <<fdtVars, smVars, cutVars, cfVars, tsVars, hannVars, kernVars, plVars, vidVars, fasVars, prVars>>
\* locate_planets loads the kernels: it leaves kern_dir and kern_hist alone.
plOthers == <<fdtVars, smVars, cutVars, cfVars, tsVars, hannVars, fdVars, kern_dir, kern_hist, vidVars, fasVars, prVars>>
vidOthers == <<fdtVars, smVars, cutVars, cfVars, tsVars, hannVars, kernVars, fdVars, plVars, fasVars, prVars>>
fasOthers == <<fdtVars, smVars, cutVars, cfVars, tsVars, hannVars, kernVars, fdVars, plVars, vidVars, prVars>>
prOthers == <<fdtVars, smVars, cutVars, cfVars, tsVars, hannVars, kernVars, fdVars, plVars, vidVars, fasVars>>

(***************************************************************************)
(* Bounds of the model.                                                    *)
(***************************************************************************)
\* The largest number of cells (rows * columns) of a distortion map.
MaxCells == 6
\* The largest number of points of a curve given to smooth_curve.
MaxPoints == 5
\* The largest number of rows, and of columns, of the image given to
\* make_cutout, and the largest cutout_size.
MaxSide == 3
\* The largest number of files under the directory given to collect_files.
MaxFiles == 2
\* The largest number of calls of to_timestamp in a run.
MaxTsCalls == 2
\* The largest size of an axis of the shape given to get_hann_rolloff.
MaxHannSize == 6
\* The largest number of calls of load_kernels and clear_kernels in a run.
MaxKernCalls == 4
\* The largest number of calls of cache_planet_pos and locate_planets in a run.
MaxPlCalls == 3
\* The images of make_WISPR_video are taken at 0, 12 h, ..., MaxVidSlot * 12 h.
MaxVidSlot == 4
\* The largest fps given to make_WISPR_video (the frames of a second of video).
MaxVidFps == 3
\* The largest number of files given to find_all_stars.
MaxFasFrames == 3
\* The largest pixel coordinate given to the radial projection.
MaxPrPix == 2
\* The largest angle given to the projection's conversions, in quarter turns.
MaxPrQuarter == 3
\* The largest number of conversions applied one after the other.
MaxPrSteps == 5

(***************************************************************************)
(* IEEE-754 values, as far as the code's behaviour depends on them: NaN,   *)
(* the two infinities, and finite numbers.  A finite number is an integer  *)
(* count of 1/Unit; Unit is chosen so that every halving (the mean of the  *)
(* two middle elements of a median) and the division of the blur stay      *)
(* exact.  Rounding and overflow of finite numbers are not modelled.       *)
(***************************************************************************)
NaN  == [k |-> "nan", v |-> 0]
PInf == [k |-> "inf", v |-> 1]
NInf == [k |-> "inf", v |-> -1]
Fin(n) == [k |-> "fin", v |-> n]

IsNaN(a) == a.k = "nan"
IsFinite(a) == a.k = "fin"

RECURSIVE Pow2(_)
Pow2(n) == IF n = 0 THEN 1 ELSE 2 * Pow2(n - 1)

Unit == 16 * Pow2(MaxCells)

\* a + b
FAdd(a, b) ==
    IF IsNaN(a) \/ IsNaN(b) THEN NaN
    ELSE IF a.k = "inf" /\ b.k = "inf" THEN (IF a.v = b.v THEN a ELSE NaN)
    ELSE IF a.k = "inf" THEN a
    ELSE IF b.k = "inf" THEN b
    ELSE Fin(a.v + b.v)

\* a / d for a positive integer d
FDiv(a, d) == IF IsFinite(a) THEN Fin(a.v \div d) ELSE a

\* w * a for a positive integer w
FMul(w, a) == IF IsFinite(a) THEN Fin(w * a.v) ELSE a

\* a < b and a <= b on values that are not NaN
FLt(a, b) ==
    IF a.k = "inf" THEN a.v = -1 /\ ~(b.k = "inf" /\ b.v = -1)
    ELSE IF b.k = "inf" THEN b.v = 1
    ELSE a.v < b.v
FLeq(a, b) == a = b \/ FLt(a, b)

RECURSIVE FSum(_)
FSum(s) == IF s = <<>> THEN Fin(0) ELSE FAdd(Head(s), FSum(Tail(s)))

(***************************************************************************)
(* Arrays: a 2-D array is a sequence of rows, each a sequence of values.   *)
(***************************************************************************)
NRows(g) == Len(g)
NCols(g) == IF Len(g) = 0 THEN 0 ELSE Len(g[1])
Cells(g) == (1..NRows(g)) \X (1..NCols(g))
NanCells(g) == {p \in Cells(g) : IsNaN(g[p[1]][p[2]])}
NanCount(g) == Cardinality(NanCells(g))
AnyNaN(g) == NanCells(g) # {}

\* data[r1:r2, c1:c2] with 1-based inclusive bounds
Slice(g, r1, r2, c1, c2) ==
    [r \in 1..(r2 - r1 + 1) |-> [c \in 1..(c2 - c1 + 1) |-> g[r1 + r - 1][c1 + c - 1]]]

Min2(a, b) == IF a < b THEN a ELSE b
Max2(a, b) == IF a > b THEN a ELSE b

\* The k-th smallest (k = 1 is the smallest) of the values of f, none NaN.
Kth(f, k) ==
    LET S == DOMAIN f
        p == CHOOSE q \in S :
                /\ Cardinality({o \in S : FLt(f[o], f[q])}) < k
                /\ k <= Cardinality({o \in S : FLeq(f[o], f[q])})
    IN f[p]

\* np.nanmedian over the values of f: NaN when all are NaN, otherwise the
\* middle value of the others, or the mean of the two middle values.
NanMedian(f) ==
    LET S == {q \in DOMAIN f : ~IsNaN(f[q])}
        g == [q \in S |-> f[q]]
        n == Cardinality(S)
    IN IF n = 0 THEN NaN
       ELSE IF n % 2 = 1 THEN Kth(g, (n + 1) \div 2)
       ELSE FDiv(FAdd(Kth(g, n \div 2), Kth(g, n \div 2 + 1)), 2)

(***************************************************************************)
(* filter_distortion_table                                                  *)
(***************************************************************************)
\* data.copy(): a new array with the same content, sharing nothing.
\* `view` tells whether the result shares the buffer of a.
DataNoCopy(a) == [arr |-> a, view |-> TRUE]
DataCopy(a) == [arr |-> a, view |-> FALSE]

AllNaNRow(g, r) == \A c \in 1..NCols(g) : IsNaN(g[r][c])
AllNaNCol(g, c) == \A r \in 1..NRows(g) : IsNaN(g[r][c])

\* The four trimming loops.  Each removes all-NaN rows (columns) from one
\* side and counts them; indexing row 0 of an array with no rows left raises
\* IndexError, which is what an all-NaN input runs into.
RECURSIVE TrimTop(_, _)
TrimTop(g, i) ==
    IF NRows(g) = 0 THEN [raised |-> TRUE, arr |-> g, n |-> i]
    ELSE IF AllNaNRow(g, 1) THEN TrimTop(Tail(g), i + 1)
    ELSE [raised |-> FALSE, arr |-> g, n |-> i]

RECURSIVE TrimBottom(_, _)
TrimBottom(g, i) ==
    IF NRows(g) = 0 THEN [raised |-> TRUE, arr |-> g, n |-> i]
    ELSE IF AllNaNRow(g, NRows(g)) THEN TrimBottom(SubSeq(g, 1, NRows(g) - 1), i + 1)
    ELSE [raised |-> FALSE, arr |-> g, n |-> i]

RECURSIVE TrimLeft(_, _)
TrimLeft(g, i) ==
    IF NCols(g) = 0 THEN [raised |-> TRUE, arr |-> g, n |-> i]
    ELSE IF AllNaNCol(g, 1) THEN TrimLeft([r \in 1..NRows(g) |-> Tail(g[r])], i + 1)
    ELSE [raised |-> FALSE, arr |-> g, n |-> i]

RECURSIVE TrimRight(_, _)
TrimRight(g, i) ==
    IF NCols(g) = 0 THEN [raised |-> TRUE, arr |-> g, n |-> i]
    ELSE IF AllNaNCol(g, NCols(g))
         THEN TrimRight([r \in 1..NRows(g) |-> SubSeq(g[r], 1, NCols(g) - 1)], i + 1)
    ELSE [raised |-> FALSE, arr |-> g, n |-> i]

\* Lines 799-823: the four loops in order, stopping at the first that raises.
TrimAll(g) ==
    LET t == TrimTop(g, 0) IN
    IF t.raised THEN [raised |-> TRUE, arr |-> t.arr, trimmed |-> <<t.n, 0, 0, 0>>]
    ELSE LET b == TrimBottom(t.arr, 0) IN
    IF b.raised THEN [raised |-> TRUE, arr |-> b.arr, trimmed |-> <<t.n, b.n, 0, 0>>]
    ELSE LET l == TrimLeft(b.arr, 0) IN
    IF l.raised THEN [raised |-> TRUE, arr |-> l.arr, trimmed |-> <<t.n, b.n, l.n, 0>>]
    ELSE LET r == TrimRight(l.arr, 0) IN
         [raised |-> r.raised, arr |-> r.arr, trimmed |-> <<t.n, b.n, l.n, r.n>>]

\* Lines 834-839: the replacement of the NaN cell (r, c): the nanmedian of
\* its 3x3 neighbourhood, clipped at the border of the array.
Neighbourhood(g, r, c) ==
    Slice(g, Max2(r - 1, 1), Min2(r + 1, NRows(g)), Max2(c - 1, 1), Min2(c + 1, NCols(g)))

Replacement(g, r, c) ==
    LET w == Neighbourhood(g, r, c)
    IN NanMedian([p \in Cells(w) |-> w[p[1]][p[2]]])

\* Lines 829-840: one iteration of the while loop.  Every replacement is
\* computed from the array as it was when the iteration began.
FillOnce(g) ==
    [r \in 1..NRows(g) |-> [c \in 1..NCols(g) |->
        IF IsNaN(g[r][c]) THEN Replacement(g, r, c) ELSE g[r][c]]]

\* Index i of an axis of length n under mode='reflect' (d c b a | a b c d | d c b a),
\* for the offsets of a size-3 window.
Reflect(i, n) == IF i < 1 THEN 1 ELSE IF i > n THEN n ELSE i

\* scipy.ndimage.median_filter(data, size=3, mode='reflect'): the 5th smallest
\* of the nine values of the window.
MedianFilter3(g) ==
    [r \in 1..NRows(g) |-> [c \in 1..NCols(g) |->
        Kth([p \in (-1..1) \X (-1..1) |->
                g[Reflect(r + p[1], NRows(g))][Reflect(c + p[2], NCols(g))]], 5)]]

\* scipy.ndimage.gaussian_filter(data, sigma), mode 'reflect': a normalised
\* kernel of positive weights applied along both axes.  The weights of the
\* Gaussian are irrational; the model keeps what the claims depend on (the
\* shape, positive weights summing to one, the reflecting border, IEEE sums)
\* with the integer kernel (1, 2, 1)/4 on each axis.
BlurWeight(d) == IF d = 0 THEN 2 ELSE 1
GaussianFilter(g) ==
    [r \in 1..NRows(g) |-> [c \in 1..NCols(g) |->
        FDiv(FSum([i \in 1..9 |->
                LET dr == ((i - 1) \div 3) - 1
                    dc == ((i - 1) % 3) - 1
                IN FMul(BlurWeight(dr) * BlurWeight(dc),
                        g[Reflect(r + dr, NRows(g))][Reflect(c + dc, NCols(g))])]), 16)]]

\* np.pad(data, [trimmed[0:2], trimmed[2:]], mode='edge')
PadEdge(g, t) ==
    [r \in 1..(NRows(g) + t[1] + t[2]) |-> [c \in 1..(NCols(g) + t[3] + t[4]) |->
        g[Reflect(r - t[1], NRows(g))][Reflect(c - t[3], NCols(g))]]]

\* An assignment through a view: the caller's array with the window that
\* `data` covers overwritten by the content of `data`.
WriteThrough(base, g, t) ==
    [r \in 1..NRows(base) |-> [c \in 1..NCols(base) |->
        IF /\ r > t[1] /\ r <= t[1] + NRows(g)
           /\ c > t[3] /\ c <= t[3] + NCols(g)
        THEN g[r - t[1]][c - t[3]] ELSE base[r][c]]]

\* The maps the model calls the function with: every shape of at most
\* MaxCells cells, filled either with NaN and two finite values or with
\* NaN, zero and the two infinities.
FiniteValues == {NaN, Fin(0), Fin(Unit)}
InfValues == {NaN, NInf, PInf, Fin(0)}
Shapes == {s \in (1..MaxCells) \X (1..MaxCells) : s[1] * s[2] <= MaxCells}
GridsOver(V) == UNION {[1..s[1] -> [1..s[2] -> V]] : s \in Shapes}
Grids == GridsOver(FiniteValues) \cup GridsOver(InfValues)
EmptyGrid == <<>>

\* The state at the call: the caller holds a 2-D array.
FdtInit ==
    /\ fdt_pc = "call"
    /\ fdt_input \in Grids
    /\ fdt_caller = fdt_input
    /\ fdt_data = EmptyGrid
    /\ fdt_shared = FALSE
    /\ fdt_trimmed = <<0, 0, 0, 0>>
    /\ fdt_passes = 0
    /\ fdt_result = EmptyGrid
    /\ sm_pc = "idle" /\ sm_x = <<>> /\ sm_y = <<>> /\ sm_outlier = 0 /\ sm_out = <<>>
    /\ cut_pc = "idle" /\ cut_args = <<>> /\ cut_result = <<>>
    /\ cf_tree = {} /\ cf_sel = <<>> /\ cf_ref = <<>> /\ cf_args = <<>> /\ cf_res = <<>>
    /\ ts_log = <<>>
    /\ hann_pc = "idle" /\ hann_shape = <<>> /\ hann_rolloff = <<>> /\ hann_result = <<>>
    /\ KERNELS_LOADED = FALSE /\ kern_dir = {} /\ kern_pool = <<>> /\ kern_hist = <<>>
    /\ fd_pc = "idle" /\ fd_date = <<>> /\ fd_res = <<>>
    /\ pl_cache = {} /\ pl_hist = <<>>
    /\ vid_pc = "idle" /\ vid_args = <<>> /\ vid_res = <<>>
    /\ fas_pc = "idle" /\ fas_ifiles = <<>> /\ fas_frames = <<>> /\ fas_finished = <<>>
    /\ fas_out = <<>>
    /\ pr_obj = <<>> /\ pr_origin = 0 /\ pr_path = <<>>

\* Lines 797-823: copy the input, trim the all-NaN edges.
FdtTrim ==
    /\ fdt_pc = "call"
    /\ LET d == DataCopy(fdt_caller)
           t == TrimAll(d.arr)
       IN /\ fdt_data' = t.arr
          /\ fdt_trimmed' = t.trimmed
          /\ fdt_shared' = d.view
          /\ fdt_pc' = IF t.raised THEN "raised" ELSE "fill"
    /\ UNCHANGED <<fdt_input, fdt_caller, fdt_passes, fdt_result>>
    /\ UNCHANGED fdtOthers

\* Lines 828-840: one iteration of `while np.any(np.isnan(data))`.  The loop
\* itself has no bound; the model follows it for MaxCells iterations, one more
\* than a map of MaxCells cells with a non-NaN cell has NaN cells.
FdtFillPass ==
    /\ fdt_pc = "fill"
    /\ AnyNaN(fdt_data)
    /\ fdt_passes < MaxCells
    /\ fdt_data' = FillOnce(fdt_data)
    /\ fdt_caller' = IF fdt_shared
                     THEN WriteThrough(fdt_caller, fdt_data', fdt_trimmed)
                     ELSE fdt_caller
    /\ fdt_passes' = fdt_passes + 1
    /\ UNCHANGED <<fdt_pc, fdt_input, fdt_shared, fdt_trimmed, fdt_result>>
    /\ UNCHANGED fdtOthers

\* Lines 842-853: the loop has ended; median filter, blur, pad and return.
FdtFinish ==
    /\ fdt_pc = "fill"
    /\ ~AnyNaN(fdt_data)
    /\ \E med_filter_size \in {0, 3}, blur_sigma \in {0, 1} :
         \E m \in {IF med_filter_size # 0 THEN MedianFilter3(fdt_data) ELSE fdt_data} :
         \E b \in {IF blur_sigma > 0 THEN GaussianFilter(m) ELSE m} :
            /\ fdt_data' = b
            /\ fdt_result' = PadEdge(b, fdt_trimmed)
    /\ fdt_pc' = "done"
    /\ UNCHANGED <<fdt_input, fdt_caller, fdt_shared, fdt_trimmed, fdt_passes>>
    /\ UNCHANGED fdtOthers

FdtNext == FdtTrim \/ FdtFillPass \/ FdtFinish

(***************************************************************************)
(* smooth_curve                                                            *)
(*                                                                         *)
(* x is measured in units of sig, so sig is 1.  An element of the output   *)
(* is a weighted mean with the weights exp(-(x[i] - xs)**2 / sig**2),      *)
(* which are positive for every point of a window of n_sig = 3 widths; the *)
(* model keeps, for each element, the set of the points that enter the     *)
(* mean (`used`), and the element is NaN (0/0) exactly when that set is    *)
(* empty.                                                                  *)
(***************************************************************************)
\* The default n_sig, and sig in units of itself.
N_SIG == 3
SIG == 1

Abs(n) == IF n < 0 THEN -n ELSE n

RECURSIVE SumOver(_, _)
SumOver(S, f) ==
    IF S = {} THEN 0
    ELSE LET j == CHOOSE q \in S : TRUE IN f[j] + SumOver(S \ {j}, f)

\* Lines 579-584: the points within n_sig * sig of x[i] whose y is finite.
SmWindow(x, y, i) ==
    {j \in 1..Len(y) : Abs(x[j] - x[i]) <= N_SIG * SIG /\ IsFinite(y[j])}

\* n**2 times the variance of the y of the points W (np.std squared).
SmVarN(y, W) ==
    LET n == Cardinality(W)
        s1 == SumOver(W, [j \in W |-> y[j].v])
        s2 == SumOver(W, [j \in W |-> y[j].v * y[j].v])
    IN n * s2 - s1 * s1

\* n**2 times the squared deviation of y[j] from the mean over W.
SmDevN(y, W, j) ==
    LET n == Cardinality(W)
        s1 == SumOver(W, [q \in W |-> y[q].v])
    IN (n * y[j].v - s1) * (n * y[j].v - s1)

\* Lines 585-590: the points left by the outlier rejection.  np.std of an
\* empty window is NaN, and NaN > 0 is false.
SmKept(x, y, i, outlier_sig) ==
    LET W == SmWindow(x, y, i) IN
    IF W # {} /\ SmVarN(y, W) > 0
    THEN {j \in W : SmDevN(y, W, j) <= outlier_sig * outlier_sig * SmVarN(y, W)}
    ELSE W

\* Lines 591-592: output_array[i].
SmOutput(x, y, i, outlier_sig) ==
    LET K == SmKept(x, y, i, outlier_sig)
    IN [used |-> K, nan |-> K = {}]

\* The curves: x increasing with steps of 1 or 4 widths, y NaN, infinite or
\* one of two finite values.
SmSteps == {1, 4}
SmYValues == {NaN, PInf, Fin(0), Fin(5)}
RECURSIVE SmXs(_)
SmXs(n) ==
    IF n = 1 THEN {<<0>>}
    ELSE {Append(x, x[n - 1] + d) : x \in SmXs(n - 1), d \in SmSteps}

SmInit ==
    /\ sm_pc = "call"
    /\ \E n \in 1..MaxPoints :
         /\ sm_x \in SmXs(n)
         /\ sm_y \in [1..n -> SmYValues]
    /\ sm_outlier \in {1, 2}
    /\ sm_out = <<>>
    /\ fdt_pc = "idle" /\ fdt_input = EmptyGrid /\ fdt_caller = EmptyGrid
    /\ fdt_data = EmptyGrid /\ fdt_shared = FALSE /\ fdt_trimmed = <<0, 0, 0, 0>>
    /\ fdt_passes = 0 /\ fdt_result = EmptyGrid
    /\ cut_pc = "idle" /\ cut_args = <<>> /\ cut_result = <<>>
    /\ cf_tree = {} /\ cf_sel = <<>> /\ cf_ref = <<>> /\ cf_args = <<>> /\ cf_res = <<>>
    /\ ts_log = <<>>
    /\ hann_pc = "idle" /\ hann_shape = <<>> /\ hann_rolloff = <<>> /\ hann_result = <<>>
    /\ KERNELS_LOADED = FALSE /\ kern_dir = {} /\ kern_pool = <<>> /\ kern_hist = <<>>
    /\ fd_pc = "idle" /\ fd_date = <<>> /\ fd_res = <<>>
    /\ pl_cache = {} /\ pl_hist = <<>>
    /\ vid_pc = "idle" /\ vid_args = <<>> /\ vid_res = <<>>
    /\ fas_pc = "idle" /\ fas_ifiles = <<>> /\ fas_frames = <<>> /\ fas_finished = <<>>
    /\ fas_out = <<>>
    /\ pr_obj = <<>> /\ pr_origin = 0 /\ pr_path = <<>>

\* Lines 578-593: the whole call.
SmoothCurve ==
    /\ sm_pc = "call"
    /\ sm_out' = [i \in 1..Len(sm_y) |-> SmOutput(sm_x, sm_y, i, sm_outlier)]
    /\ sm_pc' = "done"
    /\ UNCHANGED <<sm_x, sm_y, sm_outlier>>
    /\ UNCHANGED smOthers

SmNext == SmoothCurve

(***************************************************************************)
(* make_cutout                                                             *)
(*                                                                         *)
(* x and y are floats; the model holds them in halves (x2 = 2 * x), which  *)
(* is where Python's round() to the nearest even integer shows.  Array     *)
(* indices are 0-based here, as in the code.                               *)
(***************************************************************************)
\* int(round(x)) for x = x2 / 2: a tie goes to the even neighbour.
PyRound(x2) ==
    IF x2 % 2 = 0 THEN x2 \div 2
    ELSE LET lo == (x2 - 1) \div 2 IN IF lo % 2 = 0 THEN lo ELSE lo + 1

\* Lines 53-54: the index of the first column (row) of the cutout.
CutoutStart(x2, cutout_size) == PyRound(x2) - cutout_size \div 2

\* Lines 56-57: what the two assert statements accept.
CutoutAccepted(start, len, cutout_size) == 0 < start /\ start < len - cutout_size + 1

GridMin(g) == CHOOSE m \in {g[p[1]][p[2]] : p \in Cells(g)} :
                 \A p \in Cells(g) : m <= g[p[1]][p[2]]
GridMax(g) == CHOOSE m \in {g[p[1]][p[2]] : p \in Cells(g)} :
                 \A p \in Cells(g) : m >= g[p[1]][p[2]]

\* Lines 51-68.  The normalised cutout is held as the grid of numerators
\* over one denominator; 0/0 under np.errstate(invalid='raise') raises.
MakeCutout(x2, y2, data, cutout_size, normalize) ==
    LET sx == CutoutStart(x2, cutout_size)
        sy == CutoutStart(y2, cutout_size)
    IN IF ~CutoutAccepted(sy, NRows(data), cutout_size)
          \/ ~CutoutAccepted(sx, NCols(data), cutout_size)
       THEN [raised |-> "AssertionError"]
       ELSE LET cutout == Slice(data, sy + 1, sy + cutout_size, sx + 1, sx + cutout_size)
                lo == GridMin(cutout)
                hi == GridMax(cutout) - lo
            IN IF ~normalize
               THEN [raised |-> "", cutout |-> cutout, den |-> 1,
                     cutout_start_x |-> sx, cutout_start_y |-> sy]
               ELSE IF hi = 0 THEN [raised |-> "FloatingPointError"]
               ELSE [raised |-> "",
                     cutout |-> [r \in 1..cutout_size |-> [c \in 1..cutout_size |->
                                    cutout[r][c] - lo]],
                     den |-> hi,
                     cutout_start_x |-> sx, cutout_start_y |-> sy]

\* The images: of every shape up to MaxSide x MaxSide, either flat or with
\* all pixels different.
CutImages ==
    UNION {{[r \in 1..h |-> [c \in 1..w |-> 7]],
            [r \in 1..h |-> [c \in 1..w |-> (r - 1) * w + c]]} :
           h \in 1..MaxSide, w \in 1..MaxSide}

CutInit ==
    /\ cut_pc = "call"
    /\ \E data \in CutImages :
         cut_args \in [x2 : (-2)..(2 * NCols(data) + 1), y2 : (-2)..(2 * NRows(data) + 1),
                       data : {data}, cutout_size : 1..MaxSide, normalize : BOOLEAN]
    /\ cut_result = <<>>
    /\ cf_tree = {} /\ cf_sel = <<>> /\ cf_ref = <<>> /\ cf_args = <<>> /\ cf_res = <<>>
    /\ fdt_pc = "idle" /\ fdt_input = EmptyGrid /\ fdt_caller = EmptyGrid
    /\ fdt_data = EmptyGrid /\ fdt_shared = FALSE /\ fdt_trimmed = <<0, 0, 0, 0>>
    /\ fdt_passes = 0 /\ fdt_result = EmptyGrid
    /\ sm_pc = "idle" /\ sm_x = <<>> /\ sm_y = <<>> /\ sm_outlier = 0 /\ sm_out = <<>>
    /\ ts_log = <<>>
    /\ hann_pc = "idle" /\ hann_shape = <<>> /\ hann_rolloff = <<>> /\ hann_result = <<>>
    /\ KERNELS_LOADED = FALSE /\ kern_dir = {} /\ kern_pool = <<>> /\ kern_hist = <<>>
    /\ fd_pc = "idle" /\ fd_date = <<>> /\ fd_res = <<>>
    /\ pl_cache = {} /\ pl_hist = <<>>
    /\ vid_pc = "idle" /\ vid_args = <<>> /\ vid_res = <<>>
    /\ fas_pc = "idle" /\ fas_ifiles = <<>> /\ fas_frames = <<>> /\ fas_finished = <<>>
    /\ fas_out = <<>>
    /\ pr_obj = <<>> /\ pr_origin = 0 /\ pr_path = <<>>

MakeCutoutCall ==
    /\ cut_pc = "call"
    /\ cut_result' = MakeCutout(cut_args.x2, cut_args.y2, cut_args.data,
                                cut_args.cutout_size, cut_args.normalize)
    /\ cut_pc' = "done"
    /\ UNCHANGED cut_args
    /\ UNCHANGED cutOthers

CutNext == MakeCutoutCall

(***************************************************************************)
(* collect_files, get_PSP_path (utils.py)                                  *)
(*                                                                         *)
(* A file is [dir, psp, ts, det, hdr]: the directory it is in ("top" for   *)
(* top_level_dir itself, "2018" for a subdirectory whose name starts with  *)
(* "20"), whether its name starts with "psp" and ends in ".fits", the      *)
(* timestamp field of its name (file.split('_')[3]), the detector digit    *)
(* (fname[-9]) and its FITS header.  Timestamps and header dates are       *)
(* fixed-format strings, which compare as the numbers the model uses.      *)
(*                                                                         *)
(* A returned item is [tuple, elems]: a tuple of elems, or (tuple FALSE) a *)
(* bare path, the one element of elems.  Every element carries its kind:   *)
(* "sortkey", "path" or "header".                                          *)
(***************************************************************************)
CfKeys == 1..2
CfHeaders == [kind : {"header"}, dateavg : CfKeys]
CfFiles ==
    [dir : {"top", "2018"}, psp : {TRUE}, ts : CfKeys, det : {1, 2}, hdr : CfHeaders]
        \cup {[dir |-> "2018", psp |-> FALSE, ts |-> 1, det |-> 1,
                hdr |-> [kind |-> "header", dateavg |-> 1]]}

\* f"{dir}/{file}": the path of a file, which no two files share.
CfPath(f) == [kind |-> "path", dir |-> f.dir, psp |-> f.psp, ts |-> f.ts, det |-> f.det]

CfTrees ==
    {T \in SUBSET CfFiles :
        /\ Cardinality(T) <= MaxFiles
        /\ \A f, g \in T : CfPath(f) = CfPath(g) => f = g}

\* Lines 76-83: the directories that are searched.
CfSubdirs(T) ==
    LET valid == {f.dir : f \in {g \in T : g.dir # "top"}}
    IN IF valid = {} THEN {"top"} ELSE valid

\* The files os.listdir yields over the searched directories.
CfListed(T) == {f \in T : f.dir \in CfSubdirs(T)}

\* The orders os.listdir may yield them in.
CfListings(T) ==
    {l \in [1..Cardinality(CfListed(T)) -> CfListed(T)] :
        \A i, j \in DOMAIN l : i # j => l[i] # l[j]}

\* Lines 91-97: the sort key of a file.
CfKey(f, order) == IF order = "None" THEN f.ts ELSE f.hdr.dateavg

\* Lines 99-101: a bound is the empty set for None, {b} for the bound b.
CfOutsideStrict(key, between) ==
    (\E b \in between[1] : key <= b) \/ (\E b \in between[2] : key >= b)
CfOutside(key, between) ==
    (\E b \in between[1] : key < b) \/ (\E b \in between[2] : key > b)

\* Lines 103-106.
CfItem(f, a) ==
    LET key == [kind |-> "sortkey", v |-> CfKey(f, a.order)]
    IN IF a.include_headers THEN <<key, CfPath(f), f.hdr>> ELSE <<key, CfPath(f)>>

\* Lines 108-111: fname[-9] == '1'.
CfIsInnerAny(f) == TRUE
CfIsInner(f) == f.det = 1

\* Lines 85-111: the loop over the listed files, in listing order.
RECURSIVE CfScan(_, _, _)
CfScan(l, a, acc) ==
    IF l = <<>> THEN acc
    ELSE LET f == Head(l) IN
         IF ~f.psp \/ CfOutside(CfKey(f, a.order), a.between)
         THEN CfScan(Tail(l), a, acc)
         ELSE IF CfIsInner(f)
         THEN CfScan(Tail(l), a, [acc EXCEPT !.i = Append(@, CfItem(f, a))])
         ELSE CfScan(Tail(l), a, [acc EXCEPT !.o = Append(@, CfItem(f, a))])

\* The order of Python strings on paths: directory, then file name, in which
\* the timestamp comes before the detector digit.
CfPathLt(p, q) ==
    \/ p.dir # q.dir /\ p.dir = "2018"
    \/ p.dir = q.dir /\ p.ts < q.ts
    \/ p.dir = q.dir /\ p.ts = q.ts /\ p.det < q.det

\* The order of Python tuples on items: the key, then the path.  (Two items
\* never agree on both, so the headers are never compared.)
CfItemLt(v, w) == v[1].v < w[1].v \/ (v[1].v = w[1].v /\ CfPathLt(v[2], w[2]))

\* sorted(): insertion of each element, in turn, before the first greater one.
RECURSIVE CfInsert(_, _)
CfInsert(v, sorted) ==
    IF sorted = <<>> THEN <<v>>
    ELSE IF CfItemLt(v, Head(sorted)) THEN <<v>> \o sorted
    ELSE <<Head(sorted)>> \o CfInsert(v, Tail(sorted))

RECURSIVE CfSorted(_)
CfUnsorted(l) == l
CfSorted(l) == IF l = <<>> THEN <<>> ELSE CfInsert(Head(l), CfSorted(Tail(l)))

\* Lines 113-119.
CfCleanerKeepsKey(v, a) ==
    IF ~a.include_sortkey /\ ~a.include_headers
    THEN [tuple |-> FALSE, elems |-> <<v[2]>>]
    ELSE [tuple |-> TRUE, elems |-> v]
CfCleaner(v, a) ==
    IF ~a.include_sortkey
    THEN (IF a.include_headers THEN [tuple |-> TRUE, elems |-> Tail(v)]
          ELSE [tuple |-> FALSE, elems |-> <<v[2]>>])
    ELSE [tuple |-> TRUE, elems |-> v]

CfClean(l, a) == [n \in 1..Len(l) |-> CfCleaner(l[n], a)]

\* Lines 74-127.  A call that passes filters=... does not reach the body:
\* the function has no such parameter, and Python raises TypeError.
CollectFiles(listing, a) ==
    IF a.filters.given THEN [raised |-> "TypeError"]
    ELSE LET acc == CfScan(listing, a, [i |-> <<>>, o |-> <<>>])
         IN IF a.separate_detectors
            THEN [raised |-> "", i_files |-> CfClean(CfSorted(acc.i), a),
                                 o_files |-> CfClean(CfSorted(acc.o), a)]
            ELSE [raised |-> "", files |-> CfClean(CfSorted(acc.i \o acc.o), a)]

\* The keyword argument filters: not given, or a list of
\* (header key, lower, upper), a bound being {} for None.
CfNoFilters == [given |-> FALSE, list |-> <<>>]
CfFilter(lower, upper) == [key |-> "dateavg", lower |-> lower, upper |-> upper]
CfFilterArgs ==
    {CfNoFilters}
        \cup {[given |-> TRUE, list |-> l] :
                l \in {<<>>, <<CfFilter({2}, {})>>, <<CfFilter({}, {2}), CfFilter({1}, {1})>>}}

\* to_timestamp on a header date: the instant in seconds, the dates of the
\* model being whole minutes.
CfToTimestamp(k) == 60 * k

\* Lines 33-53: the times get_PSP_path returns.
GetPSPPathTimes(listing) ==
    LET files == CollectFiles(listing,
                    [separate_detectors |-> FALSE, order |-> "date-avg",
                     include_sortkey |-> FALSE, include_headers |-> TRUE,
                     between |-> <<{}, {}>>, filters |-> CfNoFilters]).files
    IN [n \in 1..Len(files) |-> CfToTimestamp(files[n].elems[2].dateavg)]

CfBounds == {{}} \cup {{k} : k \in CfKeys}
CfArgs(sel, sep, sortkey, headers, filters) ==
    [separate_detectors |-> sep, order |-> sel.order, include_sortkey |-> sortkey,
     include_headers |-> headers, between |-> sel.between, filters |-> filters]

CfInit ==
    /\ cf_tree \in CfTrees
    /\ cf_sel \in [order : {"None", "date-avg"}, between : CfBounds \X CfBounds]
    /\ cf_ref = [made |-> FALSE]
    /\ cf_args = [call |-> "none"]
    /\ cf_res = [raised |-> "none"]
    /\ fdt_pc = "idle" /\ fdt_input = EmptyGrid /\ fdt_caller = EmptyGrid
    /\ fdt_data = EmptyGrid /\ fdt_shared = FALSE /\ fdt_trimmed = <<0, 0, 0, 0>>
    /\ fdt_passes = 0 /\ fdt_result = EmptyGrid
    /\ sm_pc = "idle" /\ sm_x = <<>> /\ sm_y = <<>> /\ sm_outlier = 0 /\ sm_out = <<>>
    /\ cut_pc = "idle" /\ cut_args = <<>> /\ cut_result = <<>>
    /\ ts_log = <<>>
    /\ hann_pc = "idle" /\ hann_shape = <<>> /\ hann_rolloff = <<>> /\ hann_result = <<>>
    /\ KERNELS_LOADED = FALSE /\ kern_dir = {} /\ kern_pool = <<>> /\ kern_hist = <<>>
    /\ fd_pc = "idle" /\ fd_date = <<>> /\ fd_res = <<>>
    /\ pl_cache = {} /\ pl_hist = <<>>
    /\ vid_pc = "idle" /\ vid_args = <<>> /\ vid_res = <<>>
    /\ fas_pc = "idle" /\ fas_ifiles = <<>> /\ fas_frames = <<>> /\ fas_finished = <<>>
    /\ fas_out = <<>>
    /\ pr_obj = <<>> /\ pr_origin = 0 /\ pr_path = <<>>

\* collect_files(top_level_dir, separate_detectors, order, True, True, between)
CfCollectReference ==
    /\ ~cf_ref.made
    /\ \E sep \in BOOLEAN, listing \in CfListings(cf_tree) :
         cf_ref' = [made |-> TRUE, separate_detectors |-> sep,
                    res |-> CollectFiles(listing,
                                CfArgs(cf_sel, sep, TRUE, TRUE, CfNoFilters))]
    /\ UNCHANGED <<cf_tree, cf_sel, cf_args, cf_res>>
    /\ UNCHANGED cfOthers

\* collect_files(top_level_dir, ...) with any flags, with or without filters.
\* The functions keep no state between calls, so a run makes one such call
\* or one call of get_PSP_path, before or after the reference call.
CfCollect ==
    /\ cf_args.call = "none"
    /\ \E sep \in BOOLEAN, sortkey \in BOOLEAN, headers \in BOOLEAN,
          filters \in CfFilterArgs, listing \in CfListings(cf_tree) :
         /\ cf_args' = [call |-> "collect_files"]
                          @@ CfArgs(cf_sel, sep, sortkey, headers, filters)
         /\ cf_res' = CollectFiles(listing, cf_args')
    /\ UNCHANGED <<cf_tree, cf_sel, cf_ref>>
    /\ UNCHANGED cfOthers

\* get_PSP_path(data_dir)
CfGetPSPPath ==
    /\ cf_args.call = "none"
    /\ \E listing \in CfListings(cf_tree) :
         cf_res' = [raised |-> "", times |-> GetPSPPathTimes(listing)]
    /\ cf_args' = [call |-> "get_PSP_path"]
    /\ UNCHANGED <<cf_tree, cf_sel, cf_ref>>
    /\ UNCHANGED cfOthers

CfNext == CfCollectReference \/ CfCollect \/ CfGetPSPPath

(***************************************************************************)
(* to_timestamp (utils.py)                                                 *)
(*                                                                         *)
(* A string is [comps, fits]: its '/'-separated components, each the       *)
(* sequence of its '_'-separated fields, and whether it ends in ".fits".   *)
(* A field is a sequence of tokens: a run of digits [t |-> "num", n, w]    *)
(* (value and width), or a separator or word [t |-> "sep", c].  Calendar   *)
(* arithmetic is that of datetime, on proleptic Gregorian ordinals; a      *)
(* timestamp is [s, us], whole seconds and microseconds, of which the      *)
(* float returned is s + us / 10^6.                                        *)
(***************************************************************************)
Num(n, w) == [t |-> "num", n |-> n, w |-> w, c |-> ""]
Sep(c) == [t |-> "sep", n |-> 0, w |-> 0, c |-> c]

\* datetime: _is_leap, _days_in_month, _days_before_year, _days_before_month,
\* _ymd2ord.
IsLeap(y) == y % 4 = 0 /\ (y % 100 # 0 \/ y % 400 = 0)
DaysInMonth(y, m) ==
    IF m = 2 THEN (IF IsLeap(y) THEN 29 ELSE 28)
    ELSE IF m \in {4, 6, 9, 11} THEN 30 ELSE 31
DaysBeforeYear(y) == (y - 1) * 365 + (y - 1) \div 4 - (y - 1) \div 100 + (y - 1) \div 400
RECURSIVE DaysBeforeMonth(_, _)
DaysBeforeMonth(y, m) ==
    IF m = 1 THEN 0 ELSE DaysBeforeMonth(y, m - 1) + DaysInMonth(y, m - 1)
Ymd2Ord(y, m, d) == DaysBeforeYear(y) + DaysBeforeMonth(y, m) + d

\* datetime(...).replace(tzinfo=timezone.utc).timestamp(): whole seconds and
\* microseconds since 1970-01-01.
DtTimestamp(dt) ==
    [s |-> (Ymd2Ord(dt.year, dt.month, dt.day) - Ymd2Ord(1970, 1, 1)) * 86400
             + dt.hour * 3600 + dt.minute * 60 + dt.second,
     us |-> dt.microsecond]

NoDt == [year |-> 0, month |-> 0, day |-> 0, hour |-> 0, minute |-> 0,
         second |-> 0, microsecond |-> 0, tzinfo |-> "None"]

\* The digits each directive takes, and the values datetime accepts.
TsWidths(toks, ws) ==
    /\ Len(toks) = Len(ws)
    /\ \A n \in DOMAIN ws :
         IF ws[n] = 0 THEN toks[n].t = "sep"
         ELSE toks[n].t = "num" /\ toks[n].w = ws[n]
TsInRange(dt) ==
    /\ dt.year >= 1 /\ dt.month \in 1..12
    /\ dt.day \in 1..DaysInMonth(dt.year, dt.month)
    /\ dt.hour \in 0..23 /\ dt.minute \in 0..59 /\ dt.second \in 0..61

RECURSIVE Pow10(_)
Pow10(n) == IF n = 0 THEN 1 ELSE 10 * Pow10(n - 1)

\* Line 22: datetime.strptime(datestring, "%Y%m%dT%H%M%S"); a naive datetime,
\* or ValueError.
StrptimeCompact(toks) ==
    IF /\ TsWidths(toks, <<4, 2, 2, 0, 2, 2, 2>>)
       /\ toks[4].c = "T"
    THEN LET dt == [year |-> toks[1].n, month |-> toks[2].n, day |-> toks[3].n,
                    hour |-> toks[5].n, minute |-> toks[6].n, second |-> toks[7].n,
                    microsecond |-> 0, tzinfo |-> "None"]
         IN IF TsInRange(dt) THEN [raised |-> "", dt |-> dt]
            ELSE [raised |-> "ValueError", dt |-> NoDt]
    ELSE [raised |-> "ValueError", dt |-> NoDt]

\* Line 25: datetime.strptime(datestring, "%Y-%m-%dT%H:%M:%S.%f"); %f takes
\* one to six digits, read as a decimal fraction of a second.
StrptimeIso(toks) ==
    IF /\ Len(toks) = 13
       /\ TsWidths(SubSeq(toks, 1, 12), <<4, 0, 2, 0, 2, 0, 2, 0, 2, 0, 2, 0>>)
       /\ <<toks[2].c, toks[4].c, toks[6].c, toks[8].c, toks[10].c, toks[12].c>>
            = <<"-", "-", "T", ":", ":", ".">>
       /\ toks[13].t = "num" /\ toks[13].w \in 1..6
    THEN LET dt == [year |-> toks[1].n, month |-> toks[3].n, day |-> toks[5].n,
                    hour |-> toks[7].n, minute |-> toks[9].n, second |-> toks[11].n,
                    microsecond |-> toks[13].n * Pow10(6 - toks[13].w),
                    tzinfo |-> "None"]
         IN IF TsInRange(dt) THEN [raised |-> "", dt |-> dt]
            ELSE [raised |-> "ValueError", dt |-> NoDt]
    ELSE [raised |-> "ValueError", dt |-> NoDt]

\* Lines 15-19: the text handed to strptime.  The ".fits" stays on the last
\* field, which then is no date.
TsLast(seq) == seq[Len(seq)]
TsFirstComponent(s) == s.comps[1]
TsBaseName(s) == IF Len(s.comps) > 1 THEN TsLast(s.comps) ELSE s.comps[1]
TsField(s) ==
    IF s.fits
    THEN LET fields == TsBaseName(s)
         IN IF Len(fields) < 4 THEN [raised |-> "IndexError", toks |-> <<>>]
            ELSE IF Len(fields) = 4
            THEN [raised |-> "", toks |-> Append(fields[4], Sep(".fits"))]
            ELSE [raised |-> "", toks |-> fields[4]]
    ELSE [raised |-> "",
          toks |-> IF Len(s.comps) = 1 /\ Len(s.comps[1]) = 1 THEN s.comps[1][1]
                   ELSE <<Sep("name")>>]

\* Lines 13-30.
NoTs == [s |-> 0, us |-> 0]
TsFailed(e) == [raised |-> e, kind |-> "none", value |-> NoTs, dt |-> NoDt]
ToTimestamp(datestring, as_datetime) ==
    LET field == TsField(datestring)
    IN IF field.raised # "" THEN TsFailed(field.raised)
       ELSE LET first == StrptimeCompact(field.toks)
                parsed == IF first.raised = "" THEN first ELSE StrptimeIso(field.toks)
            IN IF parsed.raised # "" THEN TsFailed(parsed.raised)
               ELSE LET dt == [parsed.dt EXCEPT !.tzinfo = "UTC"]
                    IN IF as_datetime
                       THEN [raised |-> "", kind |-> "datetime", value |-> NoTs, dt |-> dt]
                       ELSE [raised |-> "", kind |-> "float",
                             value |-> DtTimestamp(dt), dt |-> NoDt]

\* The strings callers pass: dates in the compact and in the ISO form, the
\* latter with one or six digits of fraction, and file names with and
\* without directories.
TsDates ==
    [year : {2020, 2021}, md : {<<1, 11>>, <<2, 29>>, <<3, 1>>},
     hms : {<<8, 30, 17>>}]
TsCompact(d) ==
    <<Num(d.year, 4), Num(d.md[1], 2), Num(d.md[2], 2), Sep("T"),
      Num(d.hms[1], 2), Num(d.hms[2], 2), Num(d.hms[3], 2)>>
TsIso(d, frac) ==
    <<Num(d.year, 4), Sep("-"), Num(d.md[1], 2), Sep("-"), Num(d.md[2], 2), Sep("T"),
      Num(d.hms[1], 2), Sep(":"), Num(d.hms[2], 2), Sep(":"), Num(d.hms[3], 2),
      Sep("."), frac>>
TsFracs == {Num(0, 1), Num(5, 1), Num(500000, 6)}
TsText(toks) == [comps |-> <<<<toks>>>>, fits |-> FALSE]
TsName(toks) ==
    <<<<Sep("psp")>>, <<Sep("L3")>>, <<Sep("wispr")>>, toks, <<Sep("V1")>>, <<Num(1221, 4)>>>>
TsDir == <<<<Sep("my")>>, <<Sep("data")>>, <<Sep("dir")>>, <<Num(2021, 4)>>>>
TsStrings ==
    {TsText(TsCompact(d)) : d \in TsDates}
        \cup {TsText(TsIso(d, f)) : d \in TsDates, f \in TsFracs}
        \cup {[comps |-> <<TsName(TsCompact(d))>>, fits |-> TRUE] : d \in TsDates}
        \cup {[comps |-> <<TsDir, TsName(TsCompact(d))>>, fits |-> TRUE] : d \in TsDates}
        \cup {[comps |-> <<TsDir, SubSeq(TsName(TsCompact(d)), 1, n)>>, fits |-> TRUE] :
                d \in TsDates, n \in 3..4}

TsInit ==
    /\ ts_log = <<>>
    /\ fdt_pc = "idle" /\ fdt_input = EmptyGrid /\ fdt_caller = EmptyGrid
    /\ fdt_data = EmptyGrid /\ fdt_shared = FALSE /\ fdt_trimmed = <<0, 0, 0, 0>>
    /\ fdt_passes = 0 /\ fdt_result = EmptyGrid
    /\ sm_pc = "idle" /\ sm_x = <<>> /\ sm_y = <<>> /\ sm_outlier = 0 /\ sm_out = <<>>
    /\ cut_pc = "idle" /\ cut_args = <<>> /\ cut_result = <<>>
    /\ cf_tree = {} /\ cf_sel = <<>> /\ cf_ref = <<>> /\ cf_args = <<>> /\ cf_res = <<>>
    /\ hann_pc = "idle" /\ hann_shape = <<>> /\ hann_rolloff = <<>> /\ hann_result = <<>>
    /\ KERNELS_LOADED = FALSE /\ kern_dir = {} /\ kern_pool = <<>> /\ kern_hist = <<>>
    /\ fd_pc = "idle" /\ fd_date = <<>> /\ fd_res = <<>>
    /\ pl_cache = {} /\ pl_hist = <<>>
    /\ vid_pc = "idle" /\ vid_args = <<>> /\ vid_res = <<>>
    /\ fas_pc = "idle" /\ fas_ifiles = <<>> /\ fas_frames = <<>> /\ fas_finished = <<>>
    /\ fas_out = <<>>
    /\ pr_obj = <<>> /\ pr_origin = 0 /\ pr_path = <<>>

\* to_timestamp(datestring, as_datetime)
ToTimestampCall ==
    /\ Len(ts_log) < MaxTsCalls
    /\ \E datestring \in TsStrings, as_datetime \in BOOLEAN :
         ts_log' = Append(ts_log, [datestring |-> datestring, as_datetime |-> as_datetime,
                                   res |-> ToTimestamp(datestring, as_datetime)])
    /\ UNCHANGED tsOthers

TsNext == ToTimestampCall

(***************************************************************************)
(* get_hann_rolloff (utils.py)                                             *)
(*                                                                         *)
(* A rolloff is a count of quarters, so that integers (multiples of 4),    *)
(* half-integers and other fractions are told apart; the array of rolloffs *)
(* has an integer dtype when every entry is a Python int and a float dtype *)
(* otherwise.  A mask value is a count of 1/HannUnit.  The Hann window     *)
(* sin^2(pi n / (M - 1)) is computed with the rational approximation       *)
(* sin(pi t) ~ 16 t (1 - t) / (5 - 4 t (1 - t)), which is exact at 0, 1/2  *)
(* and 1 and increasing in between, as the sine is; rounding of the        *)
(* products is downwards.                                                  *)
(***************************************************************************)
HannUnit == 10000

\* np.atleast_1d(rolloff).dtype
HannIsFloat(rolloff) == \E n \in DOMAIN rolloff : rolloff[n] % 4 # 0

\* Lines 148-151: a single rolloff is repeated for every axis.
HannBroadcast(shape, rolloff) ==
    IF Len(rolloff) = 1 THEN [n \in DOMAIN shape |-> rolloff[1]] ELSE rolloff

\* Line 152, in quarters.
HannWidths(rolloff) == [n \in DOMAIN rolloff |-> 2 * rolloff[n]]

\* Line 153.
HannInvalid(hann_widths) ==
    \/ \E n \in DOMAIN hann_widths : hann_widths[n] <= 2 * 4
    \/ \E n \in DOMAIN hann_widths : hann_widths[n] % 4 # 0

\* scipy.signal.windows.hann(M)[n], for 0 <= n < M and M > 1.
HannCoef(n, M) ==
    LET p == n * (M - 1 - n)
        num == 16 * p
        den == 5 * (M - 1) * (M - 1) - 4 * p
    IN (HannUnit * num * num) \div (den * den)

\* Line 163: scipy.signal.windows.hann(hann_width)[:ceil(hann_width/2)], for
\* an integer count M of points.
HannWindow(M) == [k \in 1..((M + 1) \div 2) |-> HannCoef(k - 1, M)]

\* Line 155: np.ones(shape).
HannIndices(shape) ==
    {idx \in [DOMAIN shape -> 1..MaxHannSize + 1] :
        \A n \in DOMAIN shape : idx[n] <= shape[n]}
HannOnes(shape) == [idx \in HannIndices(shape) |-> HannUnit]

HannMul(a, b) == (a * b) \div HannUnit

\* Lines 164-169: the leading cells of axis i are multiplied by the window.
HannHead(mask, shape, i, window) ==
    [idx \in DOMAIN mask |->
        IF idx[i] <= Len(window) THEN HannMul(mask[idx], window[idx[i]])
        ELSE mask[idx]]

\* Lines 171-174: the trailing cells of axis i are multiplied by the window
\* reversed.
HannTailUnreversed(mask, shape, i, window) ==
    [idx \in DOMAIN mask |->
        IF idx[i] > shape[i] - Len(window)
        THEN HannMul(mask[idx], window[idx[i] - (shape[i] - Len(window))])
        ELSE mask[idx]]
HannTail(mask, shape, i, window) ==
    [idx \in DOMAIN mask |->
        IF idx[i] > shape[i] - Len(window)
        THEN HannMul(mask[idx], window[shape[i] - idx[i] + 1])
        ELSE mask[idx]]

\* Line 160: the test that decides the warning, on quarters.
HannWarns(hann_width, size) == hann_width >= 4 * size

\* Lines 156-174: the loop over the axes, from axis i on.  A window of a
\* float count of points does not exist: numpy takes only integers as the
\* number of samples, and the call raises TypeError.
RECURSIVE HannAxes(_, _, _, _, _, _)
HannAxes(i, shape, hann_widths, is_float, mask, warned) ==
    IF i > Len(shape) THEN [raised |-> "", warned |-> warned, mask |-> mask]
    ELSE IF hann_widths[i] >= 2 * 4 * shape[i]
    THEN [raised |-> "ValueError", warned |-> warned, mask |-> <<>>]
    ELSE LET warns == HannWarns(hann_widths[i], shape[i])
             now == IF warns THEN warned \cup {i} ELSE warned
         IN IF is_float THEN [raised |-> "TypeError", warned |-> now, mask |-> <<>>]
            ELSE LET window == HannWindow(hann_widths[i] \div 4)
                     head == HannHead(mask, shape, i, window)
                 IN HannAxes(i + 1, shape, hann_widths, is_float,
                             HannTail(head, shape, i, window), now)

\* Lines 145-175.
GetHannRolloff(shape, rolloff) ==
    IF Len(rolloff) # 1 /\ Len(rolloff) # Len(shape)
    THEN [raised |-> "ValueError", warned |-> {}, mask |-> <<>>]
    ELSE LET hann_widths == HannWidths(HannBroadcast(shape, rolloff))
         IN IF HannInvalid(hann_widths)
            THEN [raised |-> "ValueError", warned |-> {}, mask |-> <<>>]
            ELSE HannAxes(1, shape, hann_widths, HannIsFloat(rolloff),
                          HannOnes(shape), {})

\* The arguments: shapes of one and two axes, and rolloffs 1, 2, 2.25, 2.5,
\* 3, 4 and 7, one for all axes or one per axis (or one too many).
HannShapes == UNION {[1..n -> 1..MaxHannSize] : n \in 1..2}
HannRolloffs == {4, 8, 9, 10, 12, 16, 28}
HannRolloffArgs ==
    UNION {[1..n -> HannRolloffs] : n \in 1..2} \cup {<<8, 8, 8>>}

HannInit ==
    /\ hann_pc = "call"
    /\ hann_shape \in HannShapes
    /\ hann_rolloff \in HannRolloffArgs
    /\ hann_result = <<>>
    /\ fdt_pc = "idle" /\ fdt_input = EmptyGrid /\ fdt_caller = EmptyGrid
    /\ fdt_data = EmptyGrid /\ fdt_shared = FALSE /\ fdt_trimmed = <<0, 0, 0, 0>>
    /\ fdt_passes = 0 /\ fdt_result = EmptyGrid
    /\ sm_pc = "idle" /\ sm_x = <<>> /\ sm_y = <<>> /\ sm_outlier = 0 /\ sm_out = <<>>
    /\ cut_pc = "idle" /\ cut_args = <<>> /\ cut_result = <<>>
    /\ cf_tree = {} /\ cf_sel = <<>> /\ cf_ref = <<>> /\ cf_args = <<>> /\ cf_res = <<>>
    /\ ts_log = <<>>
    /\ KERNELS_LOADED = FALSE /\ kern_dir = {} /\ kern_pool = <<>> /\ kern_hist = <<>>
    /\ fd_pc = "idle" /\ fd_date = <<>> /\ fd_res = <<>>
    /\ pl_cache = {} /\ pl_hist = <<>>
    /\ vid_pc = "idle" /\ vid_args = <<>> /\ vid_res = <<>>
    /\ fas_pc = "idle" /\ fas_ifiles = <<>> /\ fas_frames = <<>> /\ fas_finished = <<>>
    /\ fas_out = <<>>
    /\ pr_obj = <<>> /\ pr_origin = 0 /\ pr_path = <<>>

\* get_hann_rolloff(shape, rolloff)
GetHannRolloffCall ==
    /\ hann_pc = "call"
    /\ hann_result' = GetHannRolloff(hann_shape, hann_rolloff)
    /\ hann_pc' = "done"
    /\ UNCHANGED <<hann_shape, hann_rolloff>>
    /\ UNCHANGED hannOthers

HannNext == GetHannRolloffCall

(***************************************************************************)
(* load_kernels, clear_kernels (wispr_analysis/planets.py)                 *)
(*                                                                         *)
(* The directory holds kernel files, of which "broken" is one that         *)
(* spice.furnsh rejects with an exception.  kern_hist records each call:   *)
(* whether it walked the directory, what it furnished, whether it warned,  *)
(* and whether it returned (completed) or raised.                          *)
(***************************************************************************)
KernFiles == {"naif0012.tls", "spp_nom.bsp", "broken"}

\* Line 82: the test that makes load_kernels return at once.
KernSkipsIgnoringForce(loaded, force) == loaded
KernSkips(loaded, force) == loaded /\ ~force

\* Lines 85-88: the files furnished, in walk order, up to and without the
\* first one spice.furnsh rejects.
RECURSIVE KernFurnished(_)
KernFurnished(walk) ==
    IF walk = <<>> \/ Head(walk) = "broken" THEN <<>>
    ELSE <<Head(walk)>> \o KernFurnished(Tail(walk))

\* The orders os.walk may yield the files in.
KernWalks(dir) ==
    {w \in [1..Cardinality(dir) -> dir] : \A i, j \in DOMAIN w : i # j => w[i] # w[j]}

KernInit ==
    /\ KERNELS_LOADED = FALSE
    /\ kern_dir \in SUBSET KernFiles
    /\ kern_pool = <<>>
    /\ kern_hist = <<>>
    /\ fdt_pc = "idle" /\ fdt_input = EmptyGrid /\ fdt_caller = EmptyGrid
    /\ fdt_data = EmptyGrid /\ fdt_shared = FALSE /\ fdt_trimmed = <<0, 0, 0, 0>>
    /\ fdt_passes = 0 /\ fdt_result = EmptyGrid
    /\ sm_pc = "idle" /\ sm_x = <<>> /\ sm_y = <<>> /\ sm_outlier = 0 /\ sm_out = <<>>
    /\ cut_pc = "idle" /\ cut_args = <<>> /\ cut_result = <<>>
    /\ cf_tree = {} /\ cf_sel = <<>> /\ cf_ref = <<>> /\ cf_args = <<>> /\ cf_res = <<>>
    /\ ts_log = <<>>
    /\ hann_pc = "idle" /\ hann_shape = <<>> /\ hann_rolloff = <<>> /\ hann_result = <<>>
    /\ fd_pc = "idle" /\ fd_date = <<>> /\ fd_res = <<>>
    /\ pl_cache = {} /\ pl_hist = <<>>
    /\ vid_pc = "idle" /\ vid_args = <<>> /\ vid_res = <<>>
    /\ fas_pc = "idle" /\ fas_ifiles = <<>> /\ fas_frames = <<>> /\ fas_finished = <<>>
    /\ fas_out = <<>>
    /\ pr_obj = <<>> /\ pr_origin = 0 /\ pr_path = <<>>

\* load_kernels(kernel_dir, force)
LoadKernels ==
    /\ Len(kern_hist) < MaxKernCalls
    /\ \E force \in BOOLEAN, walk \in KernWalks(kern_dir) :
         IF KernSkips(KERNELS_LOADED, force)
         THEN /\ kern_hist' = Append(kern_hist,
                    [call |-> "load_kernels", force |-> force, walked |-> FALSE,
                     furnished |-> <<>>, warned |-> FALSE, completed |-> TRUE])
              /\ UNCHANGED <<KERNELS_LOADED, kern_pool>>
         ELSE LET furnished == KernFurnished(walk)
                  completed == Len(furnished) = Len(walk)
              IN /\ kern_pool' = kern_pool \o furnished
                 /\ KERNELS_LOADED' = IF completed THEN TRUE ELSE KERNELS_LOADED
                 /\ kern_hist' = Append(kern_hist,
                       [call |-> "load_kernels", force |-> force, walked |-> TRUE,
                        furnished |-> furnished,
                        warned |-> completed /\ Len(walk) = 0,
                        completed |-> completed])
    /\ UNCHANGED kern_dir
    /\ UNCHANGED kernOthers

\* clear_kernels()
ClearKernels ==
    /\ Len(kern_hist) < MaxKernCalls
    /\ kern_pool' = <<>>
    /\ KERNELS_LOADED' = FALSE
    /\ kern_hist' = Append(kern_hist,
          [call |-> "clear_kernels", force |-> FALSE, walked |-> FALSE,
           furnished |-> <<>>, warned |-> FALSE, completed |-> TRUE])
    /\ UNCHANGED kern_dir
    /\ UNCHANGED kernOthers

KernNext == LoadKernels \/ ClearKernels

(***************************************************************************)
(* format_date, get_psp_perihelion_date (wispr_analysis/planets.py)        *)
(*                                                                         *)
(* A Python string is [k, c, d]: either (k = "chars") the sequence c of    *)
(* its characters, or (k = "date") the text of the date and time d =       *)
(* <<year, month, day, hour, minute, second>> in the form                  *)
(* 'YYYY-MM-DD HH:MM:SS', the field sep being the character between day    *)
(* and hour and ms the digits after the seconds (-1 for none).  The        *)
(* argument of format_date is [type, ...]: an int, a float [s, us], a str, *)
(* a datetime or a FITS header.                                            *)
(***************************************************************************)
NoDate == <<0, 0, 0, 0, 0, 0>>
Chars(c) == [k |-> "chars", c |-> c, d |-> NoDate, sep |-> "", ms |-> -1]
DateText(d, sep, ms) == [k |-> "date", c |-> <<>>, d |-> d, sep |-> sep, ms |-> ms]

\* Lines 21-45.
perihelia_dates ==
    <<<<2018, 11, 6, 3, 27, 0>>, <<2019, 4, 4, 22, 39, 0>>, <<2019, 9, 1, 17, 50, 0>>,
      <<2020, 1, 29, 9, 37, 0>>, <<2020, 6, 7, 8, 23, 0>>, <<2020, 9, 27, 9, 16, 0>>,
      <<2021, 1, 17, 17, 40, 0>>, <<2021, 4, 29, 8, 48, 0>>, <<2021, 8, 9, 19, 11, 0>>,
      <<2021, 11, 21, 8, 23, 0>>, <<2022, 2, 25, 15, 38, 0>>, <<2022, 6, 1, 22, 51, 0>>,
      <<2022, 9, 6, 6, 4, 0>>, <<2022, 12, 11, 13, 16, 0>>, <<2023, 3, 17, 20, 30, 0>>,
      <<2023, 6, 22, 3, 46, 0>>, <<2023, 9, 27, 23, 28, 0>>, <<2023, 12, 29, 0, 54, 0>>,
      <<2024, 3, 30, 2, 20, 0>>, <<2024, 6, 30, 3, 46, 0>>, <<2024, 9, 30, 5, 13, 0>>,
      <<2024, 12, 24, 11, 41, 0>>, <<2025, 3, 22, 22, 25, 0>>, <<2025, 6, 19, 9, 9, 0>>>>

\* int(): an optional sign and decimal digits, with blanks around them
\* ignored; anything else is ValueError.
FdDigits == <<"0", "1", "2", "3", "4", "5", "6", "7", "8", "9">>
FdDigit(ch) == (CHOOSE n \in DOMAIN FdDigits : FdDigits[n] = ch) - 1
FdIsDigit(ch) == \E n \in DOMAIN FdDigits : FdDigits[n] = ch
RECURSIVE FdStrip(_)
FdStrip(c) ==
    IF c # <<>> /\ Head(c) = " " THEN FdStrip(Tail(c))
    ELSE IF c # <<>> /\ c[Len(c)] = " " THEN FdStrip(SubSeq(c, 1, Len(c) - 1))
    ELSE c
RECURSIVE FdDecimal(_, _)
FdDecimal(c, acc) ==
    IF c = <<>> THEN acc ELSE FdDecimal(Tail(c), 10 * acc + FdDigit(Head(c)))
PyInt(c) ==
    LET t == FdStrip(c)
        signed == t # <<>> /\ Head(t) \in {"+", "-"}
        digits == IF signed THEN Tail(t) ELSE t
    IN IF digits = <<>> \/ \E n \in DOMAIN digits : ~FdIsDigit(digits[n])
       THEN [raised |-> "ValueError", n |-> 0]
       ELSE [raised |-> "",
             n |-> IF signed /\ Head(t) = "-" THEN -FdDecimal(digits, 0)
                   ELSE FdDecimal(digits, 0)]

\* Lines 48-55, for an int and for a str.
PerihelionOf(encounter) ==
    IF encounter \in DOMAIN perihelia_dates
    THEN [raised |-> "", value |-> DateText(perihelia_dates[encounter], " ", -1)]
    ELSE [raised |-> "KeyError", value |-> Chars(<<>>)]
GetPspPerihelionDate(encounter) ==
    IF encounter.type = "str"
    THEN LET c == encounter.str.c
             rest == IF SubSeq(c, 1, 3) = <<"E", "N", "C">> THEN SubSeq(c, 4, Len(c))
                     ELSE IF c[1] = "E" THEN Tail(c) ELSE c
             n == PyInt(rest)
         IN IF n.raised # "" THEN [raised |-> n.raised, value |-> Chars(<<>>)]
            ELSE PerihelionOf(n.n)
    ELSE PerihelionOf(encounter.int)

\* datetime._ord2ymd: the date of a proleptic Gregorian ordinal.
DaysBeforeMonthTable == <<0, 31, 59, 90, 120, 151, 181, 212, 243, 273, 304, 334>>
Ord2Ymd(ord) ==
    LET n0 == ord - 1
        n400 == n0 \div 146097
        r400 == n0 % 146097
        n100 == r400 \div 36524
        r100 == r400 % 36524
        n4 == r100 \div 1461
        r4 == r100 % 1461
        n1 == r4 \div 365
        n == r4 % 365
        year == n400 * 400 + 1 + n100 * 100 + n4 * 4 + n1
    IN IF n1 = 4 \/ n100 = 4 THEN <<year - 1, 12, 31>>
       ELSE LET leapyear == n1 = 3 /\ (n4 # 24 \/ n100 = 3)
                guess == (n + 50) \div 32
                before(m) == DaysBeforeMonthTable[m] + (IF m > 2 /\ leapyear THEN 1 ELSE 0)
                month == IF before(guess) > n THEN guess - 1 ELSE guess
            IN <<year, month, n - before(month) + 1>>

\* datetime.fromtimestamp(t, tz=timezone.utc).strftime("%Y-%m-%d %H:%M:%S"),
\* for the whole seconds s of t (the fraction is dropped by the format).
FdRender(s) ==
    LET days == IF s >= 0 THEN s \div 86400 ELSE -((86399 - s) \div 86400)
        rest == s - days * 86400
        ymd == Ord2Ymd(Ymd2Ord(1970, 1, 1) + days)
    IN DateText(<<ymd[1], ymd[2], ymd[3], rest \div 3600, (rest % 3600) \div 60, rest % 60>>,
                " ", -1)

\* Lines 342-363.
FdReturn(value) == [raised |-> "", msg |-> "", value |-> value]
FdRaise(e, msg) == [raised |-> e, msg |-> msg, value |-> Chars(<<>>)]
FdEncounter(date) ==
    LET found == GetPspPerihelionDate(date)
    IN IF found.raised = "KeyError" THEN FdRaise("ValueError", "Invalid encounter number")
       ELSE IF found.raised # "" THEN FdRaise(found.raised, "")
       ELSE FdReturn(found.value)
FdLooksLikeEncounter(str) == str.k = "chars" /\ str.c[1] = "E" /\ Len(str.c) = 3
FormatDate(date) ==
    IF date.type \in {"int", "float"}
    THEN IF date.type = "int" /\ date.int < 30 THEN FdEncounter(date)
         ELSE FdReturn(FdRender(IF date.type = "int" THEN date.int ELSE date.float.s))
    ELSE IF date.type = "str"
    THEN IF date.str.k = "chars" /\ date.str.c = <<>> THEN FdRaise("IndexError", "")
         ELSE IF FdLooksLikeEncounter(date.str) THEN FdEncounter(date)
         ELSE FdReturn(date.str)
    ELSE IF date.type = "datetime"
    THEN FdReturn(DateText(date.str.d, " ", -1))
    ELSE FdReturn(DateText(date.str.d, " ", date.str.ms))

\* The arguments: ints around the encounter numbers and ints that are
\* timestamps, floats, strings, datetimes and headers.
FdValue(type, int, float, str) == [type |-> type, int |-> int, float |-> float, str |-> str]
FdInts == (-2..31) \cup {86399, 86400, 951782400, 1612354394}
FdFloats == [s : {5, 1612354394}, us : {0, 500000}]
FdStrings ==
    {<<>>, <<"E">>, <<"E", "5">>, <<"E", "0", "1">>,
     <<"E", "2", "4">>, <<"E", "2", "5">>, <<"E", "0", "0">>, <<"E", "9", "9">>,
     <<"E", "v", "e">>, <<"E", "N", "C">>, <<"E", "-", "1">>, <<"E", " ", "5">>,
     <<"E", "_", "1">>, <<"E", "N", "C", "0", "1">>, <<"E", "0", "1", "1">>, <<"n", "o">>}
FdDateTimes == {<<2020, 2, 29, 23, 59, 59>>, <<2021, 2, 3, 12, 13, 14>>}
FdDates ==
    {FdValue("int", n, NoTs, Chars(<<>>)) : n \in FdInts}
        \cup {FdValue("float", 0, f, Chars(<<>>)) : f \in FdFloats}
        \cup {FdValue("str", 0, NoTs, Chars(c)) : c \in FdStrings}
        \cup {FdValue("str", 0, NoTs, DateText(d, " ", 0)) : d \in FdDateTimes}
        \cup {FdValue("datetime", 0, NoTs, DateText(d, " ", -1)) : d \in FdDateTimes}
        \cup {FdValue("header", 0, NoTs, DateText(d, "T", 500)) : d \in FdDateTimes}

FdInit ==
    /\ fd_pc = "call"
    /\ fd_date \in FdDates
    /\ fd_res = <<>>
    /\ fdt_pc = "idle" /\ fdt_input = EmptyGrid /\ fdt_caller = EmptyGrid
    /\ fdt_data = EmptyGrid /\ fdt_shared = FALSE /\ fdt_trimmed = <<0, 0, 0, 0>>
    /\ fdt_passes = 0 /\ fdt_result = EmptyGrid
    /\ sm_pc = "idle" /\ sm_x = <<>> /\ sm_y = <<>> /\ sm_outlier = 0 /\ sm_out = <<>>
    /\ cut_pc = "idle" /\ cut_args = <<>> /\ cut_result = <<>>
    /\ cf_tree = {} /\ cf_sel = <<>> /\ cf_ref = <<>> /\ cf_args = <<>> /\ cf_res = <<>>
    /\ ts_log = <<>>
    /\ hann_pc = "idle" /\ hann_shape = <<>> /\ hann_rolloff = <<>> /\ hann_result = <<>>
    /\ KERNELS_LOADED = FALSE /\ kern_dir = {} /\ kern_pool = <<>> /\ kern_hist = <<>>
    /\ pl_cache = {} /\ pl_hist = <<>>
    /\ vid_pc = "idle" /\ vid_args = <<>> /\ vid_res = <<>>
    /\ fas_pc = "idle" /\ fas_ifiles = <<>> /\ fas_frames = <<>> /\ fas_finished = <<>>
    /\ fas_out = <<>>
    /\ pr_obj = <<>> /\ pr_origin = 0 /\ pr_path = <<>>

\* format_date(date)
FormatDateCall ==
    /\ fd_pc = "call"
    /\ fd_res' = FormatDate(fd_date)
    /\ fd_pc' = "done"
    /\ UNCHANGED fd_date
    /\ UNCHANGED fdOthers

FdNext == FormatDateCall

(***************************************************************************)
(* locate_planets, cache_planet_pos (wispr_analysis/planets.py)            *)
(*                                                                         *)
(* A file of cache_dir is [name, contents]; a name is [prefix, date, only, *)
(* suffix], the text prefix + date + only + suffix, where only is the      *)
(* text of the set of planet names ("" when the name has no such part).    *)
(* The positions SPICE computes are a function of the date and of the      *)
(* planets asked for; SPICE computes them only when it holds the leap      *)
(* second and the ephemeris kernels.                                       *)
(***************************************************************************)
planets == {"mercury", "venus", "earth", "mars", "jupiter", "saturn", "uranus", "neptune"}

\* Lines 144-148.
PlOnly(only) == IF only = "None" THEN planets ELSE {only}

\* Line 152: cache_fname = f"locate_planets-{date}-{only}.pkl"
PlCacheFname(date, only) ==
    [prefix |-> "locate_planets-", date |-> date, only |-> only, suffix |-> ".pkl"]

\* Line 320: os.path.join(cache_dir, str(date))
PlSavedFname(date) == [prefix |-> "", date |-> date, only |-> {}, suffix |-> ""]

\* open(path, 'wb'): the file is created or replaced.
PlWrite(cache, name, contents) ==
    {f \in cache : f.name # name} \cup {[name |-> name, contents |-> contents]}

\* Line 159: load_kernels(), as far as it changes the state.
PlLoadKernels(loaded, pool, walk) ==
    IF KernSkips(loaded, FALSE) THEN [raised |-> "", loaded |-> loaded, pool |-> pool]
    ELSE LET furnished == KernFurnished(walk)
         IN IF Len(furnished) = Len(walk)
            THEN [raised |-> "", loaded |-> TRUE, pool |-> pool \o furnished]
            ELSE [raised |-> "SpiceyError", loaded |-> loaded, pool |-> pool \o furnished]

\* Lines 160-184: spice.str2et and spice.spkezr need the kernels.
PlSpiceReady(pool) ==
    {"naif0012.tls", "spp_nom.bsp"} \subseteq {pool[n] : n \in DOMAIN pool}
PlPositions(date, only) == [date |-> date, planets |-> only]
NoPositions == [date |-> Chars(<<>>), planets |-> {}]

\* Lines 144-190, for a date that format_date has returned.  use_cache is
\* "cache_dir is not None" (sc_pos is not given).
PlFail(e, cache, k) ==
    [raised |-> e, value |-> NoPositions, from_cache |-> FALSE, computed |-> FALSE,
     cache |-> cache, loaded |-> k.loaded, pool |-> k.pool]
LocatePlanets(date, only, use_cache, cache, loaded, pool, walk) ==
    LET cache_fname == PlCacheFname(date, PlOnly(only))
        held == {f \in cache : f.name = cache_fname}
    IN IF use_cache /\ held # {}
       THEN [raised |-> "", value |-> (CHOOSE f \in held : TRUE).contents,
             from_cache |-> TRUE, computed |-> FALSE,
             cache |-> cache, loaded |-> loaded, pool |-> pool]
       ELSE LET k == PlLoadKernels(loaded, pool, walk)
            IN IF k.raised # "" THEN PlFail(k.raised, cache, k)
               ELSE IF ~PlSpiceReady(k.pool) THEN PlFail("SpiceyError", cache, k)
               ELSE LET planet_poses == PlPositions(date, PlOnly(only))
                    IN [raised |-> "", value |-> planet_poses,
                        from_cache |-> FALSE, computed |-> TRUE,
                        cache |-> IF use_cache
                                  THEN PlWrite(cache, cache_fname, planet_poses)
                                  ELSE cache,
                        loaded |-> k.loaded, pool |-> k.pool]

\* Lines 316-321.
CachePlanetPos(date, cache, loaded, pool, walk) ==
    LET found == LocatePlanets(date, "None", FALSE, cache, loaded, pool, walk)
    IN IF found.raised # "" THEN found
       ELSE [found EXCEPT !.cache = PlWrite(cache, PlSavedFname(date), found.value)]

\* The dates of the calls, and the kernel directories.
PlDates ==
    {FdValue("int", 5, NoTs, Chars(<<>>)),
     FdValue("str", 0, NoTs, DateText(<<2021, 2, 3, 12, 13, 14>>, " ", 0)),
     FdValue("str", 0, NoTs, Chars(<<>>))}
PlKernelDirs == {{}, {"naif0012.tls", "spp_nom.bsp"}, {"naif0012.tls", "broken"}}

PlInit ==
    /\ pl_cache = {}
    /\ pl_hist = <<>>
    /\ KERNELS_LOADED = FALSE /\ kern_dir \in PlKernelDirs
    /\ kern_pool = <<>> /\ kern_hist = <<>>
    /\ fdt_pc = "idle" /\ fdt_input = EmptyGrid /\ fdt_caller = EmptyGrid
    /\ fdt_data = EmptyGrid /\ fdt_shared = FALSE /\ fdt_trimmed = <<0, 0, 0, 0>>
    /\ fdt_passes = 0 /\ fdt_result = EmptyGrid
    /\ sm_pc = "idle" /\ sm_x = <<>> /\ sm_y = <<>> /\ sm_outlier = 0 /\ sm_out = <<>>
    /\ cut_pc = "idle" /\ cut_args = <<>> /\ cut_result = <<>>
    /\ cf_tree = {} /\ cf_sel = <<>> /\ cf_ref = <<>> /\ cf_args = <<>> /\ cf_res = <<>>
    /\ ts_log = <<>>
    /\ hann_pc = "idle" /\ hann_shape = <<>> /\ hann_rolloff = <<>> /\ hann_result = <<>>
    /\ fd_pc = "idle" /\ fd_date = <<>> /\ fd_res = <<>>
    /\ vid_pc = "idle" /\ vid_args = <<>> /\ vid_res = <<>>
    /\ fas_pc = "idle" /\ fas_ifiles = <<>> /\ fas_frames = <<>> /\ fas_finished = <<>>
    /\ fas_out = <<>>
    /\ pr_obj = <<>> /\ pr_origin = 0 /\ pr_path = <<>>

\* What a call leaves behind: the files, the kernels, and its record.
PlDone(call, date, only, use_cache, done) ==
    /\ pl_cache' = done.cache
    /\ KERNELS_LOADED' = done.loaded
    /\ kern_pool' = done.pool
    /\ pl_hist' = Append(pl_hist,
          [call |-> call, date |-> date, only |-> only, use_cache |-> use_cache,
           raised |-> done.raised, value |-> done.value,
           from_cache |-> done.from_cache, computed |-> done.computed,
           files |-> done.cache])

\* cache_planet_pos(date, cache_dir)
CachePlanetPosCall ==
    /\ Len(pl_hist) < MaxPlCalls
    /\ \E date \in PlDates, walk \in KernWalks(kern_dir) :
         LET formatted == FormatDate(date)
         IN IF formatted.raised # ""
            THEN PlDone("cache_planet_pos", date, "None", TRUE,
                        PlFail(formatted.raised, pl_cache,
                               [loaded |-> KERNELS_LOADED, pool |-> kern_pool]))
            ELSE PlDone("cache_planet_pos", date, "None", TRUE,
                        CachePlanetPos(formatted.value, pl_cache,
                                       KERNELS_LOADED, kern_pool, walk))
    /\ UNCHANGED plOthers

\* locate_planets(date, only=only, cache_dir=cache_dir)
LocatePlanetsCall ==
    /\ Len(pl_hist) < MaxPlCalls
    /\ \E date \in PlDates, only \in {"None", "venus"}, use_cache \in BOOLEAN,
          walk \in KernWalks(kern_dir) :
         LET formatted == FormatDate(date)
         IN IF formatted.raised # ""
            THEN PlDone("locate_planets", date, only, use_cache,
                        PlFail(formatted.raised, pl_cache,
                               [loaded |-> KERNELS_LOADED, pool |-> kern_pool]))
            ELSE PlDone("locate_planets", date, only, use_cache,
                        LocatePlanets(formatted.value, only, use_cache, pl_cache,
                                      KERNELS_LOADED, kern_pool, walk))
    /\ UNCHANGED plOthers

PlNext == CachePlanetPosCall \/ LocatePlanetsCall

(***************************************************************************)
(* make_WISPR_video (videos.py): the shown time range and the images of    *)
(* each frame                                                              *)
(*                                                                         *)
(* The images are what collect_files returns for the two detectors, each   *)
(* list in ascending time order; an image is its timestamp, in seconds.    *)
(* The frame times of np.linspace are fractions: every time of the result  *)
(* is kept multiplied by scale, the number of steps between the frames.    *)
(* Indices are Python's, counted from 0.                                   *)
(***************************************************************************)
\* None, as an index and as trim_threshold
VidNone == -1

\* sorted(itertools.chain(i_tstamps, o_tstamps))
RECURSIVE VidSorted(_)
VidSorted(s) ==
    IF s = <<>> THEN <<>>
    ELSE LET r == VidSorted(Tail(s))
         IN SelectSeq(r, LAMBDA x : x <= Head(s)) \o <<Head(s)>>
                \o SelectSeq(r, LAMBDA x : x > Head(s))

\* The trimming of the time range: t_start and t_end, or the IndexError of
\* tstamps[i+1].
VidTrim(tstamps, trim_threshold) ==
    LET n == Len(tstamps)
        t_deltas == [k \in 1..(n - 1) |-> tstamps[k + 1] - tstamps[k]]
        midpoint == Len(t_deltas) \div 2
        before == {k \in 0..(midpoint - 1) : t_deltas[k + 1] > trim_threshold}
        i == IF before # {}
             THEN CHOOSE k \in before : \A l \in before : l <= k
             ELSE 0
        after == {k \in 0..(Len(t_deltas) - midpoint - 1) :
                      t_deltas[midpoint + k + 1] > trim_threshold}
        j == IF after # {}
             THEN (CHOOSE k \in after : \A l \in after : k <= l) + midpoint
             ELSE n - 1
    IN IF i + 1 >= n
       THEN [raised |-> "IndexError", t_start |-> 0, t_end |-> 0]
       ELSE [raised |-> "", t_start |-> tstamps[i + 2], t_end |-> tstamps[j + 1]]

\* [v for v in i_files if t_start <= v[0] <= t_end]
VidShown(tstamps, t_start, t_end) ==
    SelectSeq(tstamps, LAMBDA v : t_start <= v /\ v <= t_end)

\* np.linspace(t_start, t_end, num), each time multiplied by scale
VidLinspace(t_start, t_end, num, scale) ==
    [k \in 1..num |-> t_start * scale + (k - 1) * (t_end - t_start)]

\* The image of one detector for the frame at time t: the first of the
\* images that qualify (used to show that the choice of the last matters).
VidPickFirst(tstamps, t, scale) ==
    LET cut == {p \in 0..(Len(tstamps) - 1) :
                    /\ tstamps[p + 1] * scale <= t
                    /\ Abs(tstamps[p + 1] * scale - t) < 24 * 60 * 60 * scale}
    IN IF cut # {} THEN CHOOSE p \in cut : \A q \in cut : p <= q ELSE VidNone

\* The image of one detector for the frame at time t: i_cut[-1], or None
VidPick(tstamps, t, scale) ==
    LET cut == {p \in 0..(Len(tstamps) - 1) :
                    /\ tstamps[p + 1] * scale <= t
                    /\ Abs(tstamps[p + 1] * scale - t) < 24 * 60 * 60 * scale}
    IN IF cut # {} THEN CHOOSE p \in cut : \A q \in cut : q <= p ELSE VidNone

VidRaise(exception) ==
    [raised |-> exception, t_start |-> 0, t_end |-> 0, scale |-> 1,
     i_tstamps |-> <<>>, o_tstamps |-> <<>>, images |-> <<>>]

\* make_WISPR_video, up to the list of image pairs
MakeWISPRVideo(i_files, o_files, trim_threshold, fps, duration) ==
    LET tstamps == VidSorted(i_files \o o_files)
        trim == VidTrim(tstamps, trim_threshold)
        i_tstamps == VidShown(i_files, trim.t_start, trim.t_end)
        o_tstamps == VidShown(o_files, trim.t_start, trim.t_end)
        num == fps * duration
        scale == IF num > 1 THEN num - 1 ELSE 1
        frames == VidLinspace(trim.t_start, trim.t_end, num, scale)
    IN IF trim_threshold = VidNone
       THEN \* t_start and t_end were never assigned: the first image that
            \* is compared with them raises; with no image at all it is
            \* i_files[len(i_files)//2] that raises
            IF tstamps = <<>> THEN VidRaise("IndexError")
            ELSE VidRaise("NameError")
       ELSE IF trim.raised # "" THEN VidRaise(trim.raised)
       ELSE IF i_tstamps = <<>> \/ o_tstamps = <<>> THEN VidRaise("IndexError")
       ELSE [raised |-> "", t_start |-> trim.t_start, t_end |-> trim.t_end,
             scale |-> scale, i_tstamps |-> i_tstamps, o_tstamps |-> o_tstamps,
             images |-> [k \in 1..num |->
                            [i |-> VidPick(i_tstamps, frames[k], scale),
                             j |-> VidPick(o_tstamps, frames[k], scale),
                             t |-> frames[k]]]]

\* The images of one detector: any of the times 0, 12 h, 24 h, ..., in
\* ascending order.
VidTimes == {12 * 60 * 60 * k : k \in 0..MaxVidSlot}
VidFiles ==
    {s \in UNION {[1..n -> VidTimes] : n \in 0..(MaxVidSlot + 1)} :
        \A k \in 1..(Len(s) - 1) : s[k] < s[k + 1]}
\* trim_threshold: the default, 30 hours, None
VidThresholds == {12 * 60 * 60, 30 * 60 * 60, VidNone}

VidInit ==
    /\ vid_pc = "call"
    /\ vid_args \in [i_files : VidFiles, o_files : VidFiles,
                     trim_threshold : VidThresholds,
                     fps : 1..MaxVidFps, duration : {1}]
    /\ vid_res = <<>>
    /\ fdt_pc = "idle" /\ fdt_input = EmptyGrid /\ fdt_caller = EmptyGrid
    /\ fdt_data = EmptyGrid /\ fdt_shared = FALSE /\ fdt_trimmed = <<0, 0, 0, 0>>
    /\ fdt_passes = 0 /\ fdt_result = EmptyGrid
    /\ sm_pc = "idle" /\ sm_x = <<>> /\ sm_y = <<>> /\ sm_outlier = 0 /\ sm_out = <<>>
    /\ cut_pc = "idle" /\ cut_args = <<>> /\ cut_result = <<>>
    /\ cf_tree = {} /\ cf_sel = <<>> /\ cf_ref = <<>> /\ cf_args = <<>> /\ cf_res = <<>>
    /\ ts_log = <<>>
    /\ hann_pc = "idle" /\ hann_shape = <<>> /\ hann_rolloff = <<>> /\ hann_result = <<>>
    /\ KERNELS_LOADED = FALSE /\ kern_dir = {} /\ kern_pool = <<>> /\ kern_hist = <<>>
    /\ fd_pc = "idle" /\ fd_date = <<>> /\ fd_res = <<>>
    /\ pl_cache = {} /\ pl_hist = <<>>
    /\ fas_pc = "idle" /\ fas_ifiles = <<>> /\ fas_frames = <<>> /\ fas_finished = <<>>
    /\ fas_out = <<>>
    /\ pr_obj = <<>> /\ pr_origin = 0 /\ pr_path = <<>>

\* make_WISPR_video(data_dir, trim_threshold=..., duration=..., fps=...)
MakeWISPRVideoCall ==
    /\ vid_pc = "call"
    /\ vid_res' = MakeWISPRVideo(vid_args.i_files, vid_args.o_files,
                                 vid_args.trim_threshold, vid_args.fps,
                                 vid_args.duration)
    /\ vid_pc' = "done"
    /\ UNCHANGED vid_args
    /\ UNCHANGED vidOthers

VidNext == MakeWISPRVideoCall

(***************************************************************************)
(* find_stars_in_frame, find_all_stars (wispr_analysis/image_alignment.py) *)
(*                                                                         *)
(* process_map hands one find_stars_in_frame call per file to a pool of    *)
(* worker processes, which finish in any order, and returns the list of    *)
(* their results once all have finished.  A file name is its timestamp     *)
(* field and a number that tells files of the same time apart; a star is   *)
(* its celestial coordinates.  The fitted position of a star differs from  *)
(* file to file: it is modelled by the number of the file.                 *)
(***************************************************************************)
\* The files: two of them share the first timestamp.
FasNames == {[t |-> (n + 1) \div 2, n |-> n] : n \in 1..MaxFasFrames}
FasStars == {"a", "b"}
\* What a file holds: "rejected" (prep_frame_for_star_finding raises
\* ValueError), or the stars whose fit succeeds, in catalogue order.
FasContents ==
    {[rejected |-> TRUE, stars |-> <<>>]}
        \cup {[rejected |-> FALSE, stars |-> s] : s \in {<<>>, <<"a">>, <<"b", "a">>}}

\* find_stars_in_frame((fname, ...)): good and mapping (the other lists
\* are built and gathered as good is)
FindStarsInFrame(fname, content) ==
    LET t == fname.t
    IN IF content.rejected
       THEN [good |-> <<>>, mapping |-> <<>>]
       ELSE [good |-> [k \in DOMAIN content.stars |-> fname.n],
             mapping |-> [k \in DOMAIN content.stars |->
                             [celest_coords |-> content.stars[k],
                              star_data |-> [fx |-> fname.n, t |-> t,
                                             vmag |-> content.stars[k]]]]]

\* The list process_map returns: the results in the order the workers
\* finished (used to show that the pairing with ifiles matters).
FasResultsAsFinished(finished) == [k \in DOMAIN finished |-> finished[k].result]

\* The list process_map returns: the result for input k at position k
FasResults(finished) ==
    [k \in DOMAIN finished |->
        (CHOOSE f \in {finished[m] : m \in DOMAIN finished} : f.index = k).result]

\* mapping[celest_coords].append(star_data), mapping a defaultdict(list)
FasAppendTo(mapping, celest_coords, star_data) ==
    [c \in DOMAIN mapping \cup {celest_coords} |->
        IF c = celest_coords
        THEN (IF c \in DOMAIN mapping THEN mapping[c] ELSE <<>>) \o <<star_data>>
        ELSE mapping[c]]

\* The inner loop over mapping_in_frame.items(), from item m on
RECURSIVE FasFrameItems(_, _, _, _)
FasFrameItems(acc, t, items, m) ==
    IF m > Len(items) THEN acc
    ELSE FasFrameItems(
             [acc EXCEPT
                 !.mapping = FasAppendTo(acc.mapping, items[m].celest_coords,
                                         items[m].star_data),
                 !.mapping_by_frame = [u \in DOMAIN acc.mapping_by_frame |->
                     IF u = t
                     THEN Append(acc.mapping_by_frame[u],
                                 [celest_coords |-> items[m].celest_coords,
                                  fx |-> items[m].star_data.fx,
                                  vmag |-> items[m].star_data.vmag])
                     ELSE acc.mapping_by_frame[u]]],
             t, items, m + 1)

\* The loop over zip(ifiles, res), from pair k on
RECURSIVE FasGatherFrom(_, _, _, _)
FasGatherFrom(acc, ifiles, res, k) ==
    IF k > Len(ifiles) \/ k > Len(res) THEN acc
    ELSE LET t == ifiles[k].t
             started == [acc EXCEPT
                            !.good = acc.good \o res[k].good,
                            !.mapping_by_frame =
                                [u \in DOMAIN acc.mapping_by_frame \cup {t} |->
                                    IF u = t THEN <<>> ELSE acc.mapping_by_frame[u]]]
         IN FasGatherFrom(FasFrameItems(started, t, res[k].mapping, 1),
                          ifiles, res, k + 1)

\* find_all_stars(ifiles, ret_all=True), given what the workers returned
FindAllStars(ifiles, finished) ==
    FasGatherFrom([good |-> <<>>, mapping |-> <<>>, mapping_by_frame |-> <<>>],
                  ifiles, FasResults(finished), 1)

FasInit ==
    /\ fas_pc = "map"
    /\ fas_ifiles \in {s \in UNION {[1..n -> FasNames] : n \in 1..MaxFasFrames} :
                          \A k, l \in DOMAIN s : k # l => s[k] # s[l]}
    /\ fas_frames \in [FasNames -> FasContents]
    /\ \A f \in FasNames :
           (\A k \in DOMAIN fas_ifiles : fas_ifiles[k] # f) =>
               fas_frames[f] = [rejected |-> TRUE, stars |-> <<>>]
    /\ fas_finished = <<>>
    /\ fas_out = <<>>
    /\ fdt_pc = "idle" /\ fdt_input = EmptyGrid /\ fdt_caller = EmptyGrid
    /\ fdt_data = EmptyGrid /\ fdt_shared = FALSE /\ fdt_trimmed = <<0, 0, 0, 0>>
    /\ fdt_passes = 0 /\ fdt_result = EmptyGrid
    /\ sm_pc = "idle" /\ sm_x = <<>> /\ sm_y = <<>> /\ sm_outlier = 0 /\ sm_out = <<>>
    /\ cut_pc = "idle" /\ cut_args = <<>> /\ cut_result = <<>>
    /\ cf_tree = {} /\ cf_sel = <<>> /\ cf_ref = <<>> /\ cf_args = <<>> /\ cf_res = <<>>
    /\ ts_log = <<>>
    /\ hann_pc = "idle" /\ hann_shape = <<>> /\ hann_rolloff = <<>> /\ hann_result = <<>>
    /\ KERNELS_LOADED = FALSE /\ kern_dir = {} /\ kern_pool = <<>> /\ kern_hist = <<>>
    /\ fd_pc = "idle" /\ fd_date = <<>> /\ fd_res = <<>>
    /\ pl_cache = {} /\ pl_hist = <<>>
    /\ vid_pc = "idle" /\ vid_args = <<>> /\ vid_res = <<>>
    /\ pr_obj = <<>> /\ pr_origin = 0 /\ pr_path = <<>>

\* A worker finishes find_stars_in_frame for one of the files still in work.
FasWorkerFinish ==
    /\ fas_pc = "map"
    /\ \E k \in DOMAIN fas_ifiles :
          /\ \A m \in DOMAIN fas_finished : fas_finished[m].index # k
          /\ fas_finished' =
                 Append(fas_finished,
                        [index |-> k,
                         result |-> FindStarsInFrame(fas_ifiles[k],
                                                     fas_frames[fas_ifiles[k]])])
    /\ UNCHANGED <<fas_pc, fas_ifiles, fas_frames, fas_out>>
    /\ UNCHANGED fasOthers

\* All workers have finished: process_map returns, the results are gathered
\* and find_all_stars returns.
FasReturn ==
    /\ fas_pc = "map"
    /\ Len(fas_finished) = Len(fas_ifiles)
    /\ fas_out' = FindAllStars(fas_ifiles, fas_finished)
    /\ fas_pc' = "done"
    /\ UNCHANGED <<fas_ifiles, fas_frames, fas_finished>>
    /\ UNCHANGED fasOthers

FasNext == FasWorkerFinish \/ FasReturn

(***************************************************************************)
(* RadialTransformer (projections.py) and HprWcs                           *)
(* (wispr_analysis/projections.py)                                         *)
(*                                                                         *)
(* Numbers are exact fractions n/d: the rounding of floating point is not  *)
(* modelled.  Angles are in degrees.  The trigonometric functions are      *)
(* tabulated on the multiples of 90 degrees (of 45 for the half angles),   *)
(* where their values are 0, 1, -1 and 1/2; the conversions between        *)
(* helioprojective and radial coordinates are applied to such angles only. *)
(***************************************************************************)
\* The fraction n/d in lowest terms, d # 0
Q(n, d) ==
    LET num == IF d < 0 THEN -n ELSE n
        den == IF d < 0 THEN -d ELSE d
        g == CHOOSE k \in 1..den :
                 /\ den % k = 0 /\ num % k = 0
                 /\ \A l \in (k + 1)..den : den % l # 0 \/ num % l # 0
    IN [n |-> num \div g, d |-> den \div g]
QAdd(a, b) == Q(a.n * b.d + b.n * a.d, a.d * b.d)
QSub(a, b) == Q(a.n * b.d - b.n * a.d, a.d * b.d)
QMul(a, b) == Q(a.n * b.n, a.d * b.d)
\* a / b, b # 0
QDiv(a, b) == Q(a.n * b.d, a.d * b.n)

\* np.sin, np.cos of a multiple of 90 degrees
PrSin(a) == <<0, 1, 0, -1>>[((a \div 90) % 4) + 1]
PrCos(a) == PrSin(a + 90)
\* Twice np.sin(h)**2, h a multiple of 45 degrees
PrSinSq2(h) == <<0, 1, 2, 1>>[((h \div 45) % 4) + 1]
\* np.arcsin(np.sqrt(v2 / 2)) for v2 = 0, 1, 2, in degrees
PrArcsinSqrt(v2) == 45 * v2
\* np.arcsin(s) for s = -1, 0, 1, in degrees
PrArcsin(s) == 90 * s
\* np.arctan2(y, x) for y, x in -1, 0, 1, in degrees
PrArctan2(y, x) ==
    IF y = 0 THEN (IF x < 0 THEN 180 ELSE 0)
    ELSE IF x = 0 THEN 90 * y
    ELSE IF x > 0 THEN 45 * y ELSE 135 * y

\* RadialTransformer.hp_to_elongation(lon, lat)
HpToElongation(self, lon, lat) ==
    LET elongation == 2 * PrArcsinSqrt(PrSinSq2(lat \div 2)
                                           + PrCos(lat) * PrSinSq2(lon \div 2))
        pa == PrArctan2(PrCos(lat) * PrSin(lon), PrSin(lat))
    IN <<elongation, pa + (self.pa_of_ecliptic - 90)>>

\* RadialTransformer.elongation_to_hp(elongation, pa)
ElongationToHp(self, elongation, pa0) ==
    LET pa == pa0 - (self.pa_of_ecliptic - 90)
        lat == PrArcsin(PrSin(elongation) * PrCos(pa))
        lon == PrArctan2(PrSin(elongation) * PrSin(pa), PrCos(elongation))
    IN <<lon, lat>>

\* RadialTransformer.all_pix2world(x, y, origin)
AllPix2World(self, x0, y0, origin) ==
    LET x == QSub(x0, Q(origin, 1))
        y == QSub(y0, Q(origin, 1))
        pa == QAdd(QMul(QSub(y, self.ref_y), self.dpa), self.ref_pa)
        elongation == QAdd(QMul(QSub(x, self.ref_x), self.delongation),
                           self.ref_elongation)
    IN <<elongation, pa>>

\* all_world2pix without the origin added back (used to show that the
\* handling of origin matters).
AllWorld2PixAtZero(self, elongation, pa, origin) ==
    <<QAdd(QDiv(QSub(elongation, self.ref_elongation), self.delongation),
           self.ref_x),
      QAdd(QDiv(QSub(pa, self.ref_pa), self.dpa), self.ref_y)>>

\* RadialTransformer.all_world2pix(elongation, pa, origin)
AllWorld2Pix(self, elongation, pa, origin) ==
    LET x == QAdd(QDiv(QSub(elongation, self.ref_elongation), self.delongation),
                  self.ref_x)
        y == QAdd(QDiv(QSub(pa, self.ref_pa), self.dpa), self.ref_y)
    IN <<QAdd(x, Q(origin, 1)), QAdd(y, Q(origin, 1))>>

\* HprWcs.hpc_to_hpr(lon, lat), a classmethod: pa_of_ecliptic is 90
HpcToHpr(lon, lat) ==
    LET elongation == 2 * PrArcsinSqrt(PrSinSq2(lat \div 2)
                                           + PrCos(lat) * PrSinSq2(lon \div 2))
        pa == PrArctan2(PrCos(lat) * PrSin(lon), PrSin(lat))
    IN <<elongation, pa + (90 - 90)>>

\* HprWcs.hpr_to_hpc(elongation, pa)
HprToHpc(elongation, pa0) ==
    LET pa == pa0 - (90 - 90)
        lat == PrArcsin(PrSin(elongation) * PrCos(pa))
        lon == PrArctan2(PrSin(elongation) * PrSin(pa), PrCos(elongation))
    IN <<lon, lat>>

\* HprWcs.pix_to_hpr(x, y)
PixToHpr(self, x, y) ==
    <<QAdd(QMul(QSub(x, self.ref_x), self.delongation), self.ref_elongation),
      QAdd(QMul(QSub(y, self.ref_y), self.dpa), self.ref_pa)>>

\* HprWcs.hpr_to_pix(elongation, pa)
HprToPix(self, elongation, pa) ==
    <<QAdd(QDiv(QSub(elongation, self.ref_elongation), self.delongation),
           self.ref_x),
      QAdd(QDiv(QSub(pa, self.ref_pa), self.dpa), self.ref_y)>>

\* The objects: reference values and non-zero steps, whole and fractional.
PrObjects ==
    [class : {"RadialTransformer"},
     ref_pa : {Q(0, 1), Q(90, 1)}, ref_y : {Q(0, 1), Q(1, 1)},
     dpa : {Q(-90, 1), Q(3, 2)},
     ref_elongation : {Q(0, 1), Q(90, 1)}, ref_x : {Q(1, 1)},
     delongation : {Q(90, 1), Q(3, 4)}, pa_of_ecliptic : {90, 0}]
        \cup
    [class : {"HprWcs"},
     ref_pa : {Q(0, 1), Q(90, 1)}, ref_y : {Q(0, 1), Q(1, 1)},
     dpa : {Q(-90, 1), Q(3, 2)},
     ref_elongation : {Q(0, 1), Q(90, 1)}, ref_x : {Q(1, 1)},
     delongation : {Q(90, 1), Q(3, 4)}, pa_of_ecliptic : {90}]
\* The coordinates given first: pixels, and angles that are multiples of 90
\* degrees from half a turn backwards on.
PrAngles == {Q(90 * k, 1) : k \in (-2)..MaxPrQuarter}
PrStarts ==
    [kind : {"pix"}, a : {Q(k, 1) : k \in 0..MaxPrPix},
     b : {Q(k, 1) : k \in 0..MaxPrPix}]
        \cup [kind : {"hpr"}, a : PrAngles, b : PrAngles]
        \cup [kind : {"hp"}, a : PrAngles,
              b : {Q(-90, 1), Q(0, 1), Q(90, 1)}]

\* The latest coordinates, and whether both are multiples of 90 degrees.
PrLast == pr_path[Len(pr_path)].val
PrTabulated(v) == v.a.d = 1 /\ v.b.d = 1 /\ v.a.n % 90 = 0 /\ v.b.n % 90 = 0
PrStep(op, kind, pair) ==
    /\ pr_path' = Append(pr_path, [op |-> op,
                                   val |-> [kind |-> kind, a |-> pair[1],
                                            b |-> pair[2]]])
    /\ UNCHANGED <<pr_obj, pr_origin>>

PrInit ==
    /\ pr_obj \in PrObjects
    /\ pr_origin \in (IF pr_obj.class = "HprWcs" THEN {0} ELSE {0, 1})
    /\ \E v \in PrStarts : pr_path = <<[op |-> "given", val |-> v]>>
    /\ fdt_pc = "idle" /\ fdt_input = EmptyGrid /\ fdt_caller = EmptyGrid
    /\ fdt_data = EmptyGrid /\ fdt_shared = FALSE /\ fdt_trimmed = <<0, 0, 0, 0>>
    /\ fdt_passes = 0 /\ fdt_result = EmptyGrid
    /\ sm_pc = "idle" /\ sm_x = <<>> /\ sm_y = <<>> /\ sm_outlier = 0 /\ sm_out = <<>>
    /\ cut_pc = "idle" /\ cut_args = <<>> /\ cut_result = <<>>
    /\ cf_tree = {} /\ cf_sel = <<>> /\ cf_ref = <<>> /\ cf_args = <<>> /\ cf_res = <<>>
    /\ ts_log = <<>>
    /\ hann_pc = "idle" /\ hann_shape = <<>> /\ hann_rolloff = <<>> /\ hann_result = <<>>
    /\ KERNELS_LOADED = FALSE /\ kern_dir = {} /\ kern_pool = <<>> /\ kern_hist = <<>>
    /\ fd_pc = "idle" /\ fd_date = <<>> /\ fd_res = <<>>
    /\ pl_cache = {} /\ pl_hist = <<>>
    /\ vid_pc = "idle" /\ vid_args = <<>> /\ vid_res = <<>>
    /\ fas_pc = "idle" /\ fas_ifiles = <<>> /\ fas_frames = <<>> /\ fas_finished = <<>>
    /\ fas_out = <<>>

\* all_pix2world(x, y, origin); pix_to_hpr(x, y)
PrPixToWorld ==
    /\ Len(pr_path) <= MaxPrSteps
    /\ PrLast.kind = "pix"
    /\ PrStep("pix_to_world", "hpr",
              IF pr_obj.class = "RadialTransformer"
              THEN AllPix2World(pr_obj, PrLast.a, PrLast.b, pr_origin)
              ELSE PixToHpr(pr_obj, PrLast.a, PrLast.b))
    /\ UNCHANGED prOthers

\* all_world2pix(elongation, pa, origin); hpr_to_pix(elongation, pa)
PrWorldToPix ==
    /\ Len(pr_path) <= MaxPrSteps
    /\ PrLast.kind = "hpr"
    /\ PrStep("world_to_pix", "pix",
              IF pr_obj.class = "RadialTransformer"
              THEN AllWorld2Pix(pr_obj, PrLast.a, PrLast.b, pr_origin)
              ELSE HprToPix(pr_obj, PrLast.a, PrLast.b))
    /\ UNCHANGED prOthers

\* hp_to_elongation(lon, lat); hpc_to_hpr(lon, lat)
PrHpToElongation ==
    /\ Len(pr_path) <= MaxPrSteps
    /\ PrLast.kind = "hp" /\ PrTabulated(PrLast)
    /\ \E pair \in {IF pr_obj.class = "RadialTransformer"
                    THEN HpToElongation(pr_obj, PrLast.a.n, PrLast.b.n)
                    ELSE HpcToHpr(PrLast.a.n, PrLast.b.n)} :
          PrStep("hp_to_elongation", "hpr", <<Q(pair[1], 1), Q(pair[2], 1)>>)
    /\ UNCHANGED prOthers

\* elongation_to_hp(elongation, pa); hpr_to_hpc(elongation, pa)
PrElongationToHp ==
    /\ Len(pr_path) <= MaxPrSteps
    /\ PrLast.kind = "hpr" /\ PrTabulated(PrLast)
    /\ \E pair \in {IF pr_obj.class = "RadialTransformer"
                    THEN ElongationToHp(pr_obj, PrLast.a.n, PrLast.b.n)
                    ELSE HprToHpc(PrLast.a.n, PrLast.b.n)} :
          PrStep("elongation_to_hp", "hp", <<Q(pair[1], 1), Q(pair[2], 1)>>)
    /\ UNCHANGED prOthers

PrNext == PrPixToWorld \/ PrWorldToPix \/ PrHpToElongation \/ PrElongationToHp

SpecFdt == FdtInit /\ [][FdtNext]_vars
SpecTs == TsInit /\ [][TsNext]_vars
SpecHann == HannInit /\ [][HannNext]_vars
SpecKern == KernInit /\ [][KernNext]_vars
SpecFd == FdInit /\ [][FdNext]_vars
SpecPl == PlInit /\ [][PlNext]_vars
SpecSmooth == SmInit /\ [][SmNext]_vars
SpecCutout == CutInit /\ [][CutNext]_vars
SpecCollect == CfInit /\ [][CfNext]_vars
SpecVideo == VidInit /\ [][VidNext]_vars
SpecStars == FasInit /\ [][FasNext]_vars
SpecProj == PrInit /\ [][PrNext]_vars

(***************************************************************************)
(* Claims about filter_distortion_table                                    *)
(***************************************************************************)
\* What the claims say of the input, computed from the input alone.
HasNonNaN(g) == NanCount(g) < Cardinality(Cells(g))
AllFiniteOrNaN(g) == \A p \in Cells(g) : g[p[1]][p[2]].k \in {"nan", "fin"}
TopNaNRows(g) == Cardinality({k \in 1..NRows(g) : \A j \in 1..k : AllNaNRow(g, j)})
BottomNaNRows(g) ==
    Cardinality({k \in 1..NRows(g) : \A j \in k..NRows(g) : AllNaNRow(g, j)})
LeftNaNCols(g) == Cardinality({k \in 1..NCols(g) : \A j \in 1..k : AllNaNCol(g, j)})
RightNaNCols(g) ==
    Cardinality({k \in 1..NCols(g) : \A j \in k..NCols(g) : AllNaNCol(g, j)})
\* The NaN cells of the input that are in no all-NaN edge row or column.
InnerNaNCount(g) ==
    Cardinality({p \in NanCells(g) :
        /\ p[1] > TopNaNRows(g) /\ p[1] <= NRows(g) - BottomNaNRows(g)
        /\ p[2] > LeftNaNCols(g) /\ p[2] <= NCols(g) - RightNaNCols(g)})

\* C1: given any 2-D map with at least one non-NaN value,
\* filter_distortion_table terminates and returns a map with no NaN: the
\* call does not raise, every iteration of the fill strictly reduces the
\* number of NaN cells (so after k iterations at least k of the NaN cells
\* left by the trimming are gone, and the loop is over once none is left),
\* and the returned map holds no NaN.
C1_FillTerminatesNoNaN ==
    HasNonNaN(fdt_input) =>
        /\ fdt_pc # "raised"
        /\ fdt_pc = "fill" => NanCount(fdt_data) + fdt_passes <= InnerNaNCount(fdt_input)
        /\ fdt_pc = "done" => ~AnyNaN(fdt_result)

\* C1 on the maps whose non-NaN values are all finite: the statement of C1
\* holds there, and every iteration replaces each NaN cell by the nanmedian
\* of its clipped 3x3 neighbourhood.
C1_OnFiniteMaps ==
    (HasNonNaN(fdt_input) /\ AllFiniteOrNaN(fdt_input)) =>
        /\ fdt_pc # "raised"
        /\ fdt_pc = "fill" => NanCount(fdt_data) + fdt_passes <= InnerNaNCount(fdt_input)
        /\ fdt_pc = "done" => ~AnyNaN(fdt_result)

\* C1 as a step property on finite maps: an iteration of the fill leaves
\* strictly fewer NaN cells than it found.
C1_FinitePassReduces ==
    [][(AllFiniteOrNaN(fdt_input) /\ fdt_passes' = fdt_passes + 1)
        => NanCount(fdt_data') < NanCount(fdt_data)]_vars

\* C2: filter_distortion_table returns a filtered copy.  The caller's array
\* is never modified; the returned map has the shape of the input; inside
\* the trimmed window it is the processed map; and each edge row (column)
\* that was all NaN in the input is a copy of the closest row (column) that
\* was not removed.
C2_FilteredCopy ==
    /\ fdt_caller = fdt_input
    /\ fdt_pc = "done" =>
        LET R == NRows(fdt_input)
            C == NCols(fdt_input)
            top == TopNaNRows(fdt_input)
            bottom == BottomNaNRows(fdt_input)
            left == LeftNaNCols(fdt_input)
            right == RightNaNCols(fdt_input)
        IN /\ NRows(fdt_result) = R
           /\ \A r \in 1..R : Len(fdt_result[r]) = C
           /\ NRows(fdt_data) = R - top - bottom
           /\ NCols(fdt_data) = C - left - right
           /\ \A r \in (top + 1)..(R - bottom) : \A c \in (left + 1)..(C - right) :
                 fdt_result[r][c] = fdt_data[r - top][c - left]
           /\ \A r \in 1..top : fdt_result[r] = fdt_result[top + 1]
           /\ \A r \in (R - bottom + 1)..R : fdt_result[r] = fdt_result[R - bottom]
           /\ \A r \in 1..R :
                 /\ \A c \in 1..left : fdt_result[r][c] = fdt_result[r][left + 1]
                 /\ \A c \in (C - right + 1)..C : fdt_result[r][c] = fdt_result[r][C - right]

\* A returned map whose input lost a row and a column, filled, filtered and
\* padded back.
C2_Witness ==
    /\ fdt_pc = "done"
    /\ fdt_trimmed[1] > 0
    /\ fdt_trimmed[3] > 0
    /\ fdt_result # fdt_input
    /\ NRows(fdt_result) = NRows(fdt_input)

(***************************************************************************)
(* Claims about smooth_curve                                               *)
(***************************************************************************)
\* C3: smooth_curve replaces every NaN of the input with a smoothed value:
\* the output has the length of y and, for every index i (those where y[i]
\* is NaN included), output[i] is not NaN and is a weighted mean of finite
\* input values only.
C3_EveryOutputSmoothed ==
    sm_pc = "done" =>
        /\ Len(sm_out) = Len(sm_y)
        /\ \A i \in 1..Len(sm_y) :
              /\ ~sm_out[i].nan
              /\ sm_out[i].used # {}
              /\ \A j \in sm_out[i].used : IsFinite(sm_y[j])

\* C4: within the window of the points no farther than n_sig * sig from
\* x[i], a point whose deviation from the window mean is at least
\* outlier_sig times the window standard deviation (equality included)
\* contributes nothing to output[i]; the rejection is skipped only when the
\* window has no variation.
C4_OutliersIgnored ==
    sm_pc = "done" =>
        \A i \in 1..Len(sm_y) :
            LET W == {j \in 1..Len(sm_y) :
                        Abs(sm_x[j] - sm_x[i]) <= N_SIG * SIG /\ IsFinite(sm_y[j])}
            IN IF W # {} /\ SmVarN(sm_y, W) > 0
               THEN \A j \in W :
                      SmDevN(sm_y, W, j) >= sm_outlier * sm_outlier * SmVarN(sm_y, W)
                         => j \notin sm_out[i].used
               ELSE sm_out[i].used = W

\* C4 with the equality left out: a point deviating by more than
\* outlier_sig standard deviations contributes nothing, and every other
\* finite point of the window does.
C4_StrictOutliersIgnored ==
    sm_pc = "done" =>
        \A i \in 1..Len(sm_y) :
            LET W == {j \in 1..Len(sm_y) :
                        Abs(sm_x[j] - sm_x[i]) <= N_SIG * SIG /\ IsFinite(sm_y[j])}
            IN IF W # {} /\ SmVarN(sm_y, W) > 0
               THEN \A j \in W :
                      SmDevN(sm_y, W, j) > sm_outlier * sm_outlier * SmVarN(sm_y, W)
                         <=> j \notin sm_out[i].used
               ELSE sm_out[i].used = W

(***************************************************************************)
(* Claims about make_cutout                                                *)
(***************************************************************************)
\* The square the call asks for: first column and row, 0-based.
CutAskedX == PyRound(cut_args.x2) - cut_args.cutout_size \div 2
CutAskedY == PyRound(cut_args.y2) - cut_args.cutout_size \div 2
CutInside ==
    /\ CutAskedX >= 0 /\ CutAskedX + cut_args.cutout_size <= NCols(cut_args.data)
    /\ CutAskedY >= 0 /\ CutAskedY + cut_args.cutout_size <= NRows(cut_args.data)

\* C5: make_cutout raises exactly when the cutout_size x cutout_size square
\* starting at (round(x) - cutout_size//2, round(y) - cutout_size//2) extends
\* beyond the data on some side; for every cutout inside the array (one
\* starting at index 0 included) it returns an array of cutout_size x
\* cutout_size with the indices of the cutout's first column and row.
C5_RaisesExactlyWhenOutside ==
    cut_pc = "done" =>
        /\ (cut_result.raised # "") <=> ~CutInside
        /\ CutInside =>
             /\ NRows(cut_result.cutout) = cut_args.cutout_size
             /\ NCols(cut_result.cutout) = cut_args.cutout_size
             /\ cut_result.cutout_start_x = CutAskedX
             /\ cut_result.cutout_start_y = CutAskedY

\* C5 without normalisation and away from index 0: a square that starts at
\* an index of at least 1 on both axes is returned exactly when it is inside.
C5_AwayFromZero ==
    (cut_pc = "done" /\ ~cut_args.normalize /\ CutAskedX # 0 /\ CutAskedY # 0) =>
        /\ (cut_result.raised # "") <=> ~CutInside
        /\ CutInside =>
             /\ NRows(cut_result.cutout) = cut_args.cutout_size
             /\ NCols(cut_result.cutout) = cut_args.cutout_size
             /\ cut_result.cutout_start_x = CutAskedX
             /\ cut_result.cutout_start_y = CutAskedY

(***************************************************************************)
(* Claims about collect_files and get_PSP_path                             *)
(***************************************************************************)
\* What the claims say of a call, computed from the directory and the
\* arguments alone.
CfRange(l) == {l[n] : n \in DOMAIN l}
CfValid == {f \in cf_tree : f.psp /\ (f.dir # "top" \/ \A g \in cf_tree : g.dir = "top")}
CfSortKey(f, order) == IF order = "None" THEN f.ts ELSE f.hdr.dateavg
CfWithin(k, between) == (\A lo \in between[1] : lo <= k) /\ (\A hi \in between[2] : k <= hi)
CfAccepted(order, between) == {f \in CfValid : CfWithin(CfSortKey(f, order), between)}
CfPasses(f, list) ==
    \A n \in DOMAIN list :
        /\ \A lower \in list[n].lower : f.hdr[list[n].key] >= lower
        /\ \A upper \in list[n].upper : f.hdr[list[n].key] <= upper

\* What a result holds: its lists, and the file each item names.
CfReturned == cf_args.call = "collect_files" /\ cf_res.raised = ""
CfLists(res) ==
    IF "files" \in DOMAIN res THEN {res.files} ELSE {res.i_files, res.o_files}
CfElem(item, kind) ==
    item.elems[CHOOSE n \in DOMAIN item.elems : item.elems[n].kind = kind]
CfFileOf(item) == CHOOSE f \in cf_tree : CfPath(f) = CfElem(item, "path")
CfFilesIn(l) == [n \in DOMAIN l |-> CfFileOf(l[n])]
CfAllFiles(res) == UNION {CfRange(CfFilesIn(l)) : l \in CfLists(res)}
CfAscending(l, order) ==
    LET files == CfFilesIn(l)
    IN \A i, j \in DOMAIN files :
        i < j => /\ CfSortKey(files[i], order) <= CfSortKey(files[j], order)
                 /\ (\A f, g \in CfRange(files) :
                        f # g => CfSortKey(f, order) # CfSortKey(g, order))
                      => CfSortKey(files[i], order) < CfSortKey(files[j], order)

\* C6: every list collect_files returns, per detector or merged, is in
\* ascending order of the sort key (the timestamp of the name, or the header
\* value named by order), strictly ascending when the keys are distinct; and
\* get_PSP_path returns one time per valid file, in ascending order, strictly
\* when the DATE-AVG values are distinct.
C6_AscendingBySortKey ==
    /\ CfReturned => \A l \in CfLists(cf_res) : CfAscending(l, cf_args.order)
    /\ cf_ref.made => \A l \in CfLists(cf_ref.res) : CfAscending(l, cf_sel.order)
    /\ cf_args.call = "get_PSP_path" =>
         /\ Len(cf_res.times) = Cardinality(CfValid)
         /\ \A i, j \in DOMAIN cf_res.times :
              i < j => /\ cf_res.times[i] <= cf_res.times[j]
                       /\ (\A f, g \in CfValid : f # g => f.hdr.dateavg # g.hdr.dateavg)
                            => cf_res.times[i] < cf_res.times[j]

\* A merged list of two files whose order by header date is the reverse of
\* their order by name.
C6_Witness ==
    /\ CfReturned /\ cf_args.order = "date-avg" /\ ~cf_args.separate_detectors
    /\ Len(cf_res.files) = 2
    /\ LET files == CfFilesIn(cf_res.files)
       IN files[1].hdr.dateavg < files[2].hdr.dateavg /\ files[1].ts > files[2].ts

\* C7: with between = (lo, hi) collect_files returns exactly the valid files
\* whose sort key k has lo <= k <= hi, each once; a bound of None sets no
\* limit on its side.
C7_BetweenInclusive ==
    CfReturned =>
        /\ CfAllFiles(cf_res) = CfAccepted(cf_args.order, cf_args.between)
        /\ \A l \in CfLists(cf_res) : \A i, j \in DOMAIN l : i # j => l[i] # l[j]

\* Both bounds given: a returned file whose key is a bound, and a valid file
\* left out.
C7_Witness ==
    /\ CfReturned /\ cf_args.between[1] # {} /\ cf_args.between[2] # {}
    /\ \E f \in CfAllFiles(cf_res) :
         CfSortKey(f, cf_args.order) \in cf_args.between[1] \cup cf_args.between[2]
    /\ CfValid \ CfAllFiles(cf_res) # {}

\* C8: with separate_detectors=True the result is two lists, the first with
\* inner-detector files only and the second with outer-detector files only,
\* an accepted file being in exactly one of them; the merged list of the
\* same directory holds exactly the files of both, its length the sum of
\* their lengths.
CfSplitOf(sep, merged) ==
    /\ CfRange(CfFilesIn(merged.files))
         = CfRange(CfFilesIn(sep.i_files)) \cup CfRange(CfFilesIn(sep.o_files))
    /\ Len(merged.files) = Len(sep.i_files) + Len(sep.o_files)
C8_DetectorsPartition ==
    /\ (CfReturned /\ cf_args.separate_detectors) =>
         /\ DOMAIN cf_res = {"raised", "i_files", "o_files"}
         /\ \A f \in CfRange(CfFilesIn(cf_res.i_files)) : f.det = 1
         /\ \A f \in CfRange(CfFilesIn(cf_res.o_files)) : f.det # 1
         /\ \A f \in CfAccepted(cf_args.order, cf_args.between) :
              Cardinality({n \in DOMAIN cf_res.i_files : CfFileOf(cf_res.i_files[n]) = f})
                + Cardinality({n \in DOMAIN cf_res.o_files : CfFileOf(cf_res.o_files[n]) = f})
                = 1
    /\ (CfReturned /\ cf_ref.made) =>
         /\ (cf_ref.separate_detectors /\ ~cf_args.separate_detectors)
              => CfSplitOf(cf_ref.res, cf_res)
         /\ (~cf_ref.separate_detectors /\ cf_args.separate_detectors)
              => CfSplitOf(cf_res, cf_ref.res)

\* Two calls on a directory with a file of each detector, one separating the
\* detectors and one not.
C8_Witness ==
    /\ CfReturned /\ cf_ref.made
    /\ cf_ref.separate_detectors /\ ~cf_args.separate_detectors
    /\ Len(cf_ref.res.i_files) = 1 /\ Len(cf_ref.res.o_files) = 1
    /\ Len(cf_res.files) = 2

\* C9: a call that gives filters = [(header key, lower, upper), ...] returns
\* exactly the accepted files whose header value for every listed key is
\* >= lower and <= upper, a bound of None setting no limit.
C9_FiltersApplied ==
    (cf_args.call = "collect_files" /\ cf_args.filters.given) =>
        /\ cf_res.raised = ""
        /\ CfAllFiles(cf_res)
             = {f \in CfAccepted(cf_args.order, cf_args.between) :
                    CfPasses(f, cf_args.filters.list)}

\* C10: the shape of an item depends on the two flags alone: a bare path,
\* (path, header), (sortkey, path) or (sortkey, path, header), the header
\* being that of the file at the path and the sortkey its sort key, which is
\* header[order] when order names a header key; and the files selected and
\* their order are those of the call with both flags set.
CfKinds(item) == [n \in DOMAIN item.elems |-> item.elems[n].kind]
CfShape(a) ==
    IF a.include_sortkey
    THEN (IF a.include_headers THEN <<"sortkey", "path", "header">>
          ELSE <<"sortkey", "path">>)
    ELSE (IF a.include_headers THEN <<"path", "header">> ELSE <<"path">>)
CfShaped(item, a) ==
    /\ item.tuple = (a.include_sortkey \/ a.include_headers)
    /\ CfKinds(item) = CfShape(a)
    /\ \E f \in cf_tree :
         /\ CfElem(item, "path") = CfPath(f)
         /\ a.include_headers => CfElem(item, "header") = f.hdr
         /\ a.include_sortkey =>
              /\ CfElem(item, "sortkey").v = CfSortKey(f, a.order)
              /\ a.order # "None" => CfElem(item, "sortkey").v = f.hdr.dateavg
CfSameFiles(res, ref) ==
    /\ "files" \in DOMAIN res => CfFilesIn(res.files) = CfFilesIn(ref.files)
    /\ "i_files" \in DOMAIN res =>
         /\ CfFilesIn(res.i_files) = CfFilesIn(ref.i_files)
         /\ CfFilesIn(res.o_files) = CfFilesIn(ref.o_files)
C10_ItemShapeByFlags ==
    CfReturned =>
        /\ \A l \in CfLists(cf_res) : \A item \in CfRange(l) : CfShaped(item, cf_args)
        /\ (cf_ref.made /\ cf_ref.separate_detectors = cf_args.separate_detectors)
             => CfSameFiles(cf_res, cf_ref.res)

\* A call with include_headers alone, ordered by a header key, that returns
\* the two files the call with both flags returned.
C10_Witness ==
    /\ CfReturned /\ cf_ref.made
    /\ ~cf_args.separate_detectors /\ ~cf_ref.separate_detectors
    /\ ~cf_args.include_sortkey /\ cf_args.include_headers
    /\ cf_args.order = "date-avg"
    /\ Len(cf_res.files) = 2 /\ Len(cf_ref.res.files) = 2
    /\ cf_res.files[1].elems[2].dateavg # cf_res.files[2].elems[2].dateavg
(***************************************************************************)
(* Claims about to_timestamp                                               *)
(***************************************************************************)
\* What the claims say of a string, read from the string alone.
TsIsText(s) == ~s.fits /\ Len(s.comps) = 1 /\ Len(s.comps[1]) = 1
TsToks(s) == s.comps[1][1]
TsIsCompactText(s) == TsIsText(s) /\ Len(TsToks(s)) = 7
TsIsIsoText(s) == TsIsText(s) /\ Len(TsToks(s)) = 13
TsCompactFields(s) == [n \in 1..6 |-> TsToks(s)[<<1, 2, 3, 5, 6, 7>>[n]].n]
TsIsoFields(s) == [n \in 1..6 |-> TsToks(s)[2 * n - 1].n]
TsIsoMicros(s) == TsToks(s)[13].n * Pow10(6 - TsToks(s)[13].w)
TsSameInstant(c, i) == TsCompactFields(c) = TsIsoFields(i) /\ TsIsoMicros(i) = 0
TsIsDate(f) == f[2] \in 1..12 /\ f[3] >= 1 /\ f[3] <= DaysInMonth(f[1], f[2])

\* Seconds from 1970-01-01T00:00:00 UTC to a calendar date and time of day,
\* by the count of days of the 400-year cycle that starts on 1 March.
TsDaysFromCivil(y, m, d) ==
    LET yy == IF m <= 2 THEN y - 1 ELSE y
        era == yy \div 400
        yoe == yy - era * 400
        doy == (153 * ((m + 9) % 12) + 2) \div 5 + d - 1
        doe == yoe * 365 + yoe \div 4 - yoe \div 100 + doy
    IN era * 146097 + doe - 719468
TsUtcSeconds(f) ==
    TsDaysFromCivil(f[1], f[2], f[3]) * 86400 + f[4] * 3600 + f[5] * 60 + f[6]

\* The file name field a path names: the fourth field of its last component.
TsFieldOf(path, text) ==
    /\ path.fits /\ TsIsText(text)
    /\ Len(TsLast(path.comps)) > 4
    /\ TsLast(path.comps)[4] = TsToks(text)

TsLogged == {ts_log[n] : n \in DOMAIN ts_log}

\* C11: to_timestamp reads its input as a UTC instant.  The compact and the
\* ISO form of one instant give the same result, which for a date of the
\* calendar is the seconds from the epoch to that UTC instant; a path ending
\* in ".fits" gives the result of the fourth field of its base name; and
\* with as_datetime the result is the UTC-aware datetime whose timestamp()
\* is the value returned without it.
C11_UtcInstant ==
    \A a, b \in TsLogged :
        /\ (TsIsCompactText(a.datestring) /\ ~a.as_datetime
                /\ TsIsDate(TsCompactFields(a.datestring))) =>
             /\ a.res.raised = ""
             /\ a.res.value = [s |-> TsUtcSeconds(TsCompactFields(a.datestring)), us |-> 0]
        /\ (TsIsIsoText(a.datestring) /\ ~a.as_datetime
                /\ TsIsDate(TsIsoFields(a.datestring))) =>
             /\ a.res.raised = ""
             /\ a.res.value = [s |-> TsUtcSeconds(TsIsoFields(a.datestring)),
                               us |-> TsIsoMicros(a.datestring)]
        /\ (TsIsCompactText(a.datestring) /\ TsIsIsoText(b.datestring)
                /\ TsSameInstant(a.datestring, b.datestring)
                /\ a.as_datetime = b.as_datetime) => a.res = b.res
        /\ (TsFieldOf(a.datestring, b.datestring) /\ a.as_datetime = b.as_datetime)
             => a.res = b.res
        /\ (a.datestring = b.datestring /\ a.as_datetime /\ ~b.as_datetime) =>
             /\ a.res.raised = b.res.raised
             /\ a.res.raised = "" =>
                  /\ a.res.kind = "datetime" /\ a.res.dt.tzinfo = "UTC"
                  /\ DtTimestamp(a.res.dt) = b.res.value

\* The path of a file in a directory, read as a datetime, and the ISO form of
\* the instant in its name, read as a float: the same instant.
C11_Witness ==
    /\ Len(ts_log) = 2
    /\ ts_log[1].datestring.fits /\ Len(ts_log[1].datestring.comps) = 2
    /\ ts_log[1].as_datetime /\ ts_log[1].res.kind = "datetime"
    /\ TsIsIsoText(ts_log[2].datestring) /\ ~ts_log[2].as_datetime
    /\ ts_log[2].res.kind = "float"
    /\ TsLast(ts_log[1].datestring.comps)[4] = TsCompact(
          [year |-> 2020, md |-> <<2, 29>>, hms |-> <<8, 30, 17>>])
    /\ DtTimestamp(ts_log[1].res.dt) = ts_log[2].res.value
(***************************************************************************)
(* Claims about get_hann_rolloff                                           *)
(***************************************************************************)
\* What the claims say of the arguments, read from the arguments alone.  A
\* rolloff r is the count 4 r of quarters.
HannFits == Len(hann_rolloff) = 1 \/ Len(hann_rolloff) = Len(hann_shape)
HannRolloffOf(i) == IF Len(hann_rolloff) = 1 THEN hann_rolloff[1] ELSE hann_rolloff[i]
HannAxesOf == DOMAIN hann_shape
HannWellFormed ==
    /\ HannFits
    /\ \A i \in HannAxesOf : HannRolloffOf(i) > 4 /\ HannRolloffOf(i) % 2 = 0
    /\ \A i \in HannAxesOf : HannRolloffOf(i) < 4 * hann_shape[i]
HannHasShape(mask) ==
    DOMAIN mask = {idx \in [HannAxesOf -> 1..MaxHannSize + 1] :
                      \A i \in HannAxesOf : idx[i] <= hann_shape[i]}
HannReversed(idx, i) == [idx EXCEPT ![i] = hann_shape[i] + 1 - idx[i]]
HannNearEnd(idx, i) ==
    \/ 4 * (idx[i] - 1) < HannRolloffOf(i)
    \/ 4 * (hann_shape[i] - idx[i]) < HannRolloffOf(i)

\* C12: for integer rolloffs r_i > 1 with 2 r_i < shape[i] on every axis, the
\* result is a mask of the shape asked for that is 1 in every cell at least
\* r_i cells from both ends of every axis, less than 1 in every cell within
\* r_i cells of an end of some axis, and unchanged by reversing any axis.
C12_MaskOfOnesWithRolloff ==
    (/\ hann_pc = "done" /\ HannFits
     /\ \A i \in HannAxesOf :
          /\ HannRolloffOf(i) % 4 = 0 /\ HannRolloffOf(i) > 4
          /\ 2 * HannRolloffOf(i) < 4 * hann_shape[i]) =>
        /\ hann_result.raised = ""
        /\ HannHasShape(hann_result.mask)
        /\ \A idx \in DOMAIN hann_result.mask :
             /\ (\A i \in HannAxesOf : ~HannNearEnd(idx, i))
                  => hann_result.mask[idx] = HannUnit
             /\ (\E i \in HannAxesOf : HannNearEnd(idx, i))
                  => hann_result.mask[idx] < HannUnit
             /\ \A i \in HannAxesOf :
                  hann_result.mask[idx] = hann_result.mask[HannReversed(idx, i)]

\* A mask of two axes with rolloff 2 on both: ones in the middle, and on the
\* second row values that rise from the corner without reaching 1.
C12_Witness ==
    /\ hann_pc = "done" /\ hann_shape = <<5, 6>> /\ hann_rolloff = <<8>>
    /\ hann_result.raised = ""
    /\ hann_result.mask[<<3, 3>>] = HannUnit /\ hann_result.mask[<<3, 4>>] = HannUnit
    /\ hann_result.mask[<<1, 1>>] = 0
    /\ 0 < hann_result.mask[<<2, 2>>]
    /\ hann_result.mask[<<2, 2>>] < hann_result.mask[<<2, 3>>]
    /\ hann_result.mask[<<2, 3>>] < HannUnit

\* C13: get_hann_rolloff raises ValueError when the rolloffs are several and
\* not as many as the axes, when some rolloff is <= 1, when some rolloff is
\* neither an integer nor a half-integer, and when some rolloff is >= the
\* size of its axis.
C13_ValueErrors ==
    hann_pc = "done" =>
        /\ ~HannFits => hann_result.raised = "ValueError"
        /\ (HannFits /\ \E i \in HannAxesOf : HannRolloffOf(i) <= 4)
             => hann_result.raised = "ValueError"
        /\ (HannFits /\ \E i \in HannAxesOf : HannRolloffOf(i) % 2 # 0)
             => hann_result.raised = "ValueError"
        /\ (HannFits /\ \E i \in HannAxesOf : HannRolloffOf(i) >= 4 * hann_shape[i])
             => hann_result.raised = "ValueError"

\* C13 for rolloffs given as integers.
C13_IntegerValueErrors ==
    (\A n \in DOMAIN hann_rolloff : hann_rolloff[n] % 4 = 0) => C13_ValueErrors

\* C14: when every rolloff is smaller than its axis and on some axis the two
\* ends overlap (2 rolloff > shape[i]), a warning is emitted and a mask of
\* the shape asked for is returned.
C14_OverlapWarnsAndReturns ==
    (/\ hann_pc = "done" /\ HannWellFormed
     /\ \E i \in HannAxesOf : 2 * HannRolloffOf(i) > 4 * hann_shape[i]) =>
        /\ hann_result.raised = ""
        /\ hann_result.warned # {}
        /\ HannHasShape(hann_result.mask)

\* C14 for rolloffs given as integers.
C14_IntegerOverlapWarns ==
    (\A n \in DOMAIN hann_rolloff : hann_rolloff[n] % 4 = 0) => C14_OverlapWarnsAndReturns

\* C15: no warning is emitted when on every axis the two ends do not overlap
\* (2 rolloff <= shape[i]).
C15_NoWarningWithoutOverlap ==
    (/\ hann_pc = "done" /\ HannWellFormed
     /\ \A i \in HannAxesOf : 2 * HannRolloffOf(i) <= 4 * hann_shape[i]) =>
        hann_result.warned = {}

\* C15 away from equality: no warning when 2 rolloff < shape[i] on every axis.
C15_NoWarningWhenApart ==
    (/\ hann_pc = "done" /\ HannWellFormed
     /\ \A i \in HannAxesOf : 2 * HannRolloffOf(i) < 4 * hann_shape[i]) =>
        hann_result.warned = {}
(***************************************************************************)
(* Claims about load_kernels and clear_kernels                             *)
(***************************************************************************)
\* A load_kernels has completed before call n with no clear_kernels between.
KernLoadedBefore(n) ==
    \E m \in 1..(n - 1) :
        /\ kern_hist[m].call = "load_kernels" /\ kern_hist[m].completed
        /\ \A k \in (m + 1)..(n - 1) : kern_hist[k].call # "clear_kernels"
KernCompleted == {n \in DOMAIN kern_hist : kern_hist[n].completed}
KernLastCompleted == CHOOSE n \in KernCompleted : \A m \in KernCompleted : m <= n

\* C16: in any sequence of calls, a load_kernels without force furnishes
\* kernel files only if no load_kernels has completed since the last
\* clear_kernels (or since the start); a load_kernels with force always
\* goes through the kernel files; and KERNELS_LOADED is true exactly when
\* the latest call that completed was a load_kernels.
C16_LoadsOnce ==
    /\ \A n \in DOMAIN kern_hist :
         kern_hist[n].call = "load_kernels" =>
            /\ (~kern_hist[n].force /\ KernLoadedBefore(n)) =>
                 ~kern_hist[n].walked /\ kern_hist[n].furnished = <<>>
            /\ kern_hist[n].force =>
                 /\ kern_hist[n].walked
                 /\ kern_hist[n].completed =>
                      {kern_hist[n].furnished[k] : k \in DOMAIN kern_hist[n].furnished}
                        = kern_dir
    /\ KERNELS_LOADED <=>
         (KernCompleted # {} /\ kern_hist[KernLastCompleted].call = "load_kernels")

\* Kernels loaded, a second load that does nothing, a forced load that
\* furnishes them again, and a clear.
C16_Witness ==
    /\ Len(kern_hist) = 4 /\ ~KERNELS_LOADED /\ kern_pool = <<>>
    /\ kern_hist[1].call = "load_kernels" /\ Len(kern_hist[1].furnished) = 2
    /\ kern_hist[1].completed
    /\ kern_hist[2].call = "load_kernels" /\ ~kern_hist[2].force
    /\ kern_hist[2].furnished = <<>>
    /\ kern_hist[3].call = "load_kernels" /\ kern_hist[3].force
    /\ Len(kern_hist[3].furnished) = 2
    /\ kern_hist[4].call = "clear_kernels"
(***************************************************************************)
(* Claims about format_date                                                *)
(***************************************************************************)
\* A string of the form 'E##': an E and two digits.
FdIsEnn(str) ==
    /\ str.k = "chars" /\ Len(str.c) = 3 /\ str.c[1] = "E"
    /\ FdIsDigit(str.c[2]) /\ FdIsDigit(str.c[3])
FdEnnNumber(str) == 10 * FdDigit(str.c[2]) + FdDigit(str.c[3])
FdPerihelion(n) ==
    IF n \in 1..24
    THEN fd_res.raised = "" /\ fd_res.value = DateText(perihelia_dates[n], " ", -1)
    ELSE fd_res.raised = "ValueError" /\ fd_res.msg = "Invalid encounter number"
FdRendered(seconds) ==
    /\ fd_res.raised = ""
    /\ fd_res.value.k = "date" /\ fd_res.value.sep = " " /\ fd_res.value.ms = -1
    /\ TsIsDate(fd_res.value.d)
    /\ fd_res.value.d[4] \in 0..23 /\ fd_res.value.d[5] \in 0..59
    /\ fd_res.value.d[6] \in 0..59
    /\ TsUtcSeconds(fd_res.value.d) = seconds

\* C18: format_date dispatches on its argument.  An int below 30 gives the
\* perihelion date of that encounter, or ValueError('Invalid encounter
\* number') when there is none; any other number is rendered as the UTC
\* date and time of that timestamp; a string 'E##' gives the perihelion date
\* of encounter ## (ValueError if unknown); every other string is returned
\* unaltered; a FITS header gives its DATE-AVG with the T replaced by a
\* space.
C18_Dispatch ==
    fd_pc = "done" =>
        /\ (fd_date.type = "int" /\ fd_date.int < 30) => FdPerihelion(fd_date.int)
        /\ (fd_date.type = "int" /\ fd_date.int >= 30) => FdRendered(fd_date.int)
        /\ fd_date.type = "float" => FdRendered(fd_date.float.s)
        /\ (fd_date.type = "str" /\ FdIsEnn(fd_date.str))
             => FdPerihelion(FdEnnNumber(fd_date.str))
        /\ (fd_date.type = "str" /\ ~FdIsEnn(fd_date.str))
             => fd_res.raised = "" /\ fd_res.value = fd_date.str
        /\ fd_date.type = "header" =>
             /\ fd_res.raised = ""
             /\ fd_res.value = [fd_date.str EXCEPT !.sep = " "]

\* C18 for every argument but the empty string and the strings of three
\* characters that start with E.
C18_DispatchElsewhere ==
    (fd_date.type = "str" /\ fd_date.str.k = "chars" /\ ~FdIsEnn(fd_date.str)
        /\ (fd_date.str.c = <<>> \/ (Len(fd_date.str.c) = 3 /\ fd_date.str.c[1] = "E")))
    \/ C18_Dispatch
(***************************************************************************)
(* Claims about cache_planet_pos and locate_planets                        *)
(***************************************************************************)
\* C17: positions saved by cache_planet_pos(date, cache_dir) are found by
\* locate_planets: a later locate_planets(date, cache_dir=cache_dir) for the
\* same date returns the contents of the file cache_planet_pos wrote, read
\* from that file and not computed by SPICE.
C17_SavedPositionsFound ==
    \A m, n \in DOMAIN pl_hist :
        (/\ m < n
         /\ pl_hist[m].call = "cache_planet_pos" /\ pl_hist[m].raised = ""
         /\ pl_hist[n].call = "locate_planets" /\ pl_hist[n].use_cache
         /\ pl_hist[n].only = "None" /\ pl_hist[n].date = pl_hist[m].date) =>
            /\ pl_hist[n].raised = ""
            /\ pl_hist[n].from_cache /\ ~pl_hist[n].computed
            /\ pl_hist[n].value = pl_hist[m].value

\* The cache of locate_planets itself: what a locate_planets with cache_dir
\* computed, a later one with the same arguments reads back.
C17_OwnCacheFound ==
    \A m, n \in DOMAIN pl_hist :
        (/\ m < n
         /\ pl_hist[m].call = "locate_planets" /\ pl_hist[m].raised = ""
         /\ pl_hist[m].use_cache
         /\ pl_hist[n].call = "locate_planets" /\ pl_hist[n].use_cache
         /\ pl_hist[n].only = pl_hist[m].only /\ pl_hist[n].date = pl_hist[m].date) =>
            /\ pl_hist[n].raised = ""
            /\ pl_hist[n].from_cache /\ ~pl_hist[n].computed
            /\ pl_hist[n].value = pl_hist[m].value
(***************************************************************************)
(* Claims about make_WISPR_video                                           *)
(***************************************************************************)
VidDone == vid_pc = "done" /\ vid_res.raised = ""

\* The images of a detector that, at frame time t, are not later than t.
VidPreceding(tstamps, t) ==
    {p \in 1..Len(tstamps) : tstamps[p] * vid_res.scale <= t}

\* The choice for one detector at frame time t is right: None when no shown
\* image precedes t or the latest that does is a day or more old, else an
\* image that precedes t and that no other one preceding t is later than.
VidRightChoice(tstamps, chosen, t) ==
    LET preceding == VidPreceding(tstamps, t)
        latest == CHOOSE p \in preceding :
                      \A q \in preceding : tstamps[q] <= tstamps[p]
    IN IF preceding = {}
          \/ t - tstamps[latest] * vid_res.scale >= 24 * 60 * 60 * vid_res.scale
       THEN chosen = VidNone
       ELSE /\ chosen + 1 \in preceding
            /\ tstamps[chosen + 1] = tstamps[latest]

VidAll == VidSorted(vid_args.i_files \o vid_args.o_files)
VidGaps ==
    {k \in 1..(Len(VidAll) - 1) :
        VidAll[k + 1] - VidAll[k] > vid_args.trim_threshold}
\* The midpoint of the sequence: gaps 1..VidMid lie before it.
VidMid == (Len(VidAll) - 1) \div 2
VidGapsBefore == {k \in VidGaps : k <= VidMid}
VidGapsAfter == {k \in VidGaps : k > VidMid}

\* C20: the shown time range expands from the midpoint of the time-sorted
\* images to the first gap exceeding trim_threshold on each side: t_start is
\* the timestamp just after the nearest such gap before the midpoint, t_end
\* the one just before the nearest such gap at or after it, and on a side
\* with no such gap the range reaches the first (last) image, so that no
\* image is trimmed when no gap exceeds the threshold.
C20_RangeBetweenNearestGaps ==
    (VidDone /\ vid_args.trim_threshold # VidNone) =>
        /\ vid_res.t_start =
               IF VidGapsBefore # {}
               THEN VidAll[(CHOOSE k \in VidGapsBefore :
                               \A l \in VidGapsBefore : l <= k) + 1]
               ELSE VidAll[1]
        /\ vid_res.t_end =
               IF VidGapsAfter # {}
               THEN VidAll[CHOOSE k \in VidGapsAfter :
                               \A l \in VidGapsAfter : k <= l]
               ELSE VidAll[Len(VidAll)]

\* The end of the range, and the start when a gap before the midpoint
\* exceeds the threshold, are as C20 says.
C20_RangeButStartWithoutGap ==
    (VidDone /\ vid_args.trim_threshold # VidNone) =>
        /\ VidGapsBefore # {} =>
               vid_res.t_start = VidAll[(CHOOSE k \in VidGapsBefore :
                                            \A l \in VidGapsBefore : l <= k) + 1]
        /\ VidGapsBefore = {} => vid_res.t_start = VidAll[2]
        /\ vid_res.t_end =
               IF VidGapsAfter # {}
               THEN VidAll[CHOOSE k \in VidGapsAfter :
                               \A l \in VidGapsAfter : k <= l]
               ELSE VidAll[Len(VidAll)]

\* With no gap above the threshold, no image is trimmed.
C20_NothingTrimmedWithoutGap ==
    (VidDone /\ vid_args.trim_threshold # VidNone /\ VidGaps = {}) =>
        /\ vid_res.i_tstamps = vid_args.i_files
        /\ vid_res.o_tstamps = vid_args.o_files
\* C21: with trim_threshold=None trimming is disabled: the call proceeds
\* normally and the video covers every image collect_files returned, from
\* the earliest to the latest timestamp.
C21_NoneDisablesTrimming ==
    (/\ vid_pc = "done" /\ vid_args.trim_threshold = VidNone
     /\ vid_args.i_files # <<>> /\ vid_args.o_files # <<>>) =>
        /\ vid_res.raised = ""
        /\ vid_res.t_start = VidAll[1]
        /\ vid_res.t_end = VidAll[Len(VidAll)]
        /\ vid_res.i_tstamps = vid_args.i_files
        /\ vid_res.o_tstamps = vid_args.o_files

\* What the call does with trim_threshold=None: it raises, whatever the
\* images.
C21_NoneRaises ==
    (vid_pc = "done" /\ vid_args.trim_threshold = VidNone) =>
        vid_res.raised = IF VidAll = <<>> THEN "IndexError" ELSE "NameError"
(***************************************************************************)
(* Claims about find_all_stars                                             *)
(***************************************************************************)
\* The stars found in the k-th input file (none in a rejected file), and
\* the input files a star was found in.
FasFoundIn(k) ==
    IF fas_frames[fas_ifiles[k]].rejected THEN <<>>
    ELSE fas_frames[fas_ifiles[k]].stars
FasFilesWith(star) ==
    {k \in DOMAIN fas_ifiles :
        \E m \in DOMAIN FasFoundIn(k) : FasFoundIn(k)[m] = star}
\* The place in ifiles of the file an observation was made in.
FasPlaceOf(observation) ==
    CHOOSE k \in DOMAIN fas_ifiles : fas_ifiles[k].n = observation.fx
\* The last input file with timestamp t.
FasLastAt(t) ==
    CHOOSE k \in DOMAIN fas_ifiles :
        /\ fas_ifiles[k].t = t
        /\ \A l \in DOMAIN fas_ifiles : fas_ifiles[l].t = t => l <= k

\* C22: the result of find_all_stars does not depend on the order in which
\* the workers finish.  Each observation carries the timestamp of the file
\* it was made in; mapping_by_frame has one entry per timestamp of the input
\* files, listing what was found in the file of that time (nothing for a
\* frame that found nothing or was rejected); and the observations of each
\* star in mapping are those of the input files holding it, in input order.
C22_ResultInInputOrder ==
    fas_pc = "done" =>
        /\ DOMAIN fas_out.mapping_by_frame =
               {fas_ifiles[k].t : k \in DOMAIN fas_ifiles}
        /\ \A t \in DOMAIN fas_out.mapping_by_frame :
               LET found == FasFoundIn(FasLastAt(t))
                   listed == fas_out.mapping_by_frame[t]
               IN /\ Len(listed) = Len(found)
                  /\ \A m \in DOMAIN listed :
                         /\ listed[m].celest_coords = found[m]
                         /\ listed[m].fx = fas_ifiles[FasLastAt(t)].n
        /\ DOMAIN fas_out.mapping = {s \in FasStars : FasFilesWith(s) # {}}
        /\ \A s \in DOMAIN fas_out.mapping :
               LET seen == fas_out.mapping[s]
               IN /\ {FasPlaceOf(seen[m]) : m \in DOMAIN seen} = FasFilesWith(s)
                  /\ \A m \in DOMAIN seen :
                         seen[m].t = fas_ifiles[FasPlaceOf(seen[m])].t
                  /\ \A m, l \in DOMAIN seen :
                         m < l => FasPlaceOf(seen[m]) < FasPlaceOf(seen[l])

\* A return after the worker of a later file finished before that of an
\* earlier one, both files holding the same star, with a rejected file and
\* a file without stars among the input.
C22_Witness ==
    /\ fas_pc = "done"
    /\ \E m, l \in DOMAIN fas_finished :
          /\ m < l /\ fas_finished[m].index > fas_finished[l].index
          /\ fas_finished[m].result.mapping # <<>>
          /\ fas_finished[l].result.mapping # <<>>
          /\ fas_ifiles[fas_finished[m].index].t # fas_ifiles[fas_finished[l].index].t
    /\ \E s \in DOMAIN fas_out.mapping : Len(fas_out.mapping[s]) >= 2
    /\ \E k \in DOMAIN fas_ifiles : fas_frames[fas_ifiles[k]].rejected
    /\ \E t \in DOMAIN fas_out.mapping_by_frame : fas_out.mapping_by_frame[t] = <<>>
(***************************************************************************)
(* Claims about the radial projection                                      *)
(***************************************************************************)
\* Conversion first, then conversion second, were applied to coordinates
\* number k of the path.
PrThenBack(k, first, second) ==
    /\ k + 2 \in DOMAIN pr_path
    /\ pr_path[k + 1].op = first /\ pr_path[k + 2].op = second
PrReturned(k) == pr_path[k + 2].val = pr_path[k].val

\* Helioprojective coordinates away from the poles, longitude in
\* (-180, 180]; radial coordinates with elongation strictly between 0 and
\* 180 and position angle within (-180, 180] of the ecliptic's offset.
PrPrincipalHp(v) ==
    /\ -90 * v.b.d < v.b.n /\ v.b.n < 90 * v.b.d
    /\ -180 * v.a.d < v.a.n /\ v.a.n <= 180 * v.a.d
PrPrincipalHpr(v) ==
    /\ 0 < v.a.n /\ v.a.n < 180 * v.a.d
    /\ -180 * v.b.d < v.b.n - (pr_obj.pa_of_ecliptic - 90) * v.b.d
    /\ v.b.n - (pr_obj.pa_of_ecliptic - 90) * v.b.d <= 180 * v.b.d

\* C23 as stated: the pixel <-> (elongation, position angle) maps are
\* mutual inverses, all_world2pix(all_pix2world(x, y, origin), origin) and
\* hpr_to_pix(pix_to_hpr(x, y)) returning (x, y) for any reference values
\* and non-zero steps, and the helioprojective <-> (elongation, position
\* angle) conversions undo each other.
C23_MutualInverses ==
    \A k \in DOMAIN pr_path :
        /\ PrThenBack(k, "pix_to_world", "world_to_pix") => PrReturned(k)
        /\ PrThenBack(k, "hp_to_elongation", "elongation_to_hp") => PrReturned(k)
        /\ PrThenBack(k, "elongation_to_hp", "hp_to_elongation") => PrReturned(k)

\* C23, amended: the pixel maps are mutual inverses as stated; the
\* helioprojective and radial conversions undo each other on coordinates
\* in their principal ranges (latitude strictly between -90 and 90 and
\* longitude in (-180, 180]; elongation strictly between 0 and 180 and
\* position angle in (-180, 180] about the ecliptic's offset).
C23_InversesOnPrincipalRanges ==
    \A k \in DOMAIN pr_path :
        /\ PrThenBack(k, "pix_to_world", "world_to_pix") => PrReturned(k)
        /\ (/\ PrThenBack(k, "hp_to_elongation", "elongation_to_hp")
            /\ PrPrincipalHp(pr_path[k].val)) => PrReturned(k)
        /\ (/\ PrThenBack(k, "elongation_to_hp", "hp_to_elongation")
            /\ PrPrincipalHpr(pr_path[k].val)) => PrReturned(k)

\* Pixels taken to radial coordinates and back with origin 1 and a
\* fractional step, the radial coordinates then taken to helioprojective
\* ones and back from within the principal range.
C23_Witness ==
    /\ pr_origin = 1
    /\ pr_obj.delongation.d > 1
    /\ \E k \in DOMAIN pr_path :
          /\ PrThenBack(k, "pix_to_world", "world_to_pix")
          /\ pr_path[k].val.a # pr_obj.ref_x
    /\ \E k \in DOMAIN pr_path :
          /\ PrThenBack(k, "elongation_to_hp", "hp_to_elongation")
          /\ PrPrincipalHpr(pr_path[k].val)

\* Helioprojective coordinates of the principal range, off the meridian,
\* taken to radial ones and back by HprWcs.
C23_WitnessHpc ==
    /\ pr_obj.class = "HprWcs"
    /\ \E k \in DOMAIN pr_path :
          /\ PrThenBack(k, "hp_to_elongation", "elongation_to_hp")
          /\ PrPrincipalHp(pr_path[k].val)
          /\ pr_path[k].val.a.n # 0

====
